---- MODULE Spec2Model ----
(***************************************************************************)
(* Wallet custody and transaction-authorization service                    *)
(* (src/src/wallet/service.ts, createWalletService, lines 113-616) with    *)
(* its file-backed stores: pending.json (pending-store.ts),                *)
(* daily-spend.json (createDailySpendStore) and audit.jsonl.               *)
(*                                                                         *)
(* Every public operation is an async function.  The code between two      *)
(* awaits runs atomically (single-threaded event loop); an operation may   *)
(* be suspended at every await on a store or RPC call.  One action of the  *)
(* model is the code an operation runs when it is resumed, together with   *)
(* the next file or network effect it issues.                              *)
(***************************************************************************)
EXTENDS Integers, Sequences, FiniteSets, TLC

(* ------------------------------ bounds -------------------------------- *)
\* calls started in one behaviour
MaxCalls == 3
\* calls that may be in flight (suspended at an await) at the same time
MaxConcurrent == 2
\* pending transactions created in one behaviour
MaxTx == 2
\* largest valueWei a caller asks for
MaxValue == 2
\* clock advances in one behaviour
MaxTicks == 1
\* failing file writes in one behaviour (SpecFaults only)
MaxFaults == 1
\* hex digits of an ABI word (64 in the code)
WordChars == 3
\* configured limits.limitPerTx of the limited configuration
CfgLimitPerTx == 1
\* configured limits.dailyLimit of the limited configuration
CfgDailyLimit == 1

(* ------------------------- program constants -------------------------- *)
\* service.ts:124  const PENDING_TX_TTL_MS = 30 * 60 * 1000
PENDING_TX_TTL_MS == 1800000
\* length of a UTC calendar day in ms (Date.getUTC* in todayUtc)
MS_PER_DAY == 86400000

(* ------------------------------ values -------------------------------- *)
NoTx == 0
TxIds == 1..MaxTx
\* a txId no request ever returned (randomUUID never produces it)
UnknownTx == MaxTx + 1
NoRec == [status |-> "none"]
\* a record without `data`
NoData == <<>>
NoLimit == -1
NoDate == -1
NoWallet == "none"
W1 == "w1"
W2 == "w2"
\* walletIds: the address derived from the key (keychain.ts createWallet)
WalletIds == {W1, W2}
\* state.wallets[walletId] undefined
NoMeta == [walletId |-> NoWallet]
\* private keys, a string that is no key, and the platforms of the adapter
K1 == "k1"
K2 == "k2"
BadKey == "k?"
Keys == {K1, K2}
\* no key read
NoKey == "none"
\* an optional number that is absent (undefined)
NoNumber == -1
\* no transaction signed
NoSignedTx == [type |-> "none"]
\* params.chainId left out
NoChain == 0
\* config.defaultChainId, a chain with an RPC URL
DefaultChain == 1
\* a second configured chain with an RPC URL
OtherChain == 2
\* a configured chain whose rpcUrl is blank
BlankChain == 3
\* a chain id that config.chains does not hold
MissingChain == 4
\* Strings that the code trims or compares ignoring case are sequences of
\* characters.  The 40 hex digits of an address are two letters here.
LowerAddresses == {<<"a", "b">>, <<"b", "b">>}
QuoteChars == {"*", "_"}
\* the calls that can be in flight at once; a finished call's slot is reused
Procs == 1..MaxConcurrent

RequestOps == {"requestSend", "requestErc20Approve", "requestErc20Transfer",
               "requestContractCall"}
\* the operations that encode an ERC-20 call
Erc20Ops == {"requestErc20Approve", "requestErc20Transfer"}
\* the request operations that call isContractAllowed
GatedOps == {"requestErc20Approve", "requestErc20Transfer",
             "requestContractCall"}
QueryOps == {"getPendingTx", "listPending"}
TerminalStatus == {"sent", "failed", "rejected"}
DonePcs == {"idle", "returned", "thrown"}

VARIABLES
  limits,        \* config.limits: [limitPerTx, dailyLimit, allowedChains]
  config,        \* the rest of WalletServiceConfig: chains, contract gate
  walletState,   \* state.json: [defaultWalletId, wallets]
  pendingFile,   \* pending.json: txId -> PendingTx record, NoRec when absent
  dailyFile,     \* daily-spend.json: [date, totalWei]
  audit,         \* audit.jsonl: sequence of [action, txId]
  now,           \* Date.now() in ms
  ticks,         \* clock advances so far
  nextTx,        \* txIds handed out so far (randomUUID is fresh each time)
  calls,         \* slot -> the call's locals, position and result
  started,       \* calls started so far
  broadcasts,    \* rpc.sendRawTransaction calls that returned a hash
  approveReturned, \* history: txIds some approveTx call has returned for
  rejectedOk,    \* history: txIds some rejectTx call returned {ok: true} for
  sentLog,       \* history: [txId, day, valueWei] of every 'sent' store write
  faults         \* failed file writes so far

vars == <<limits, config, walletState, pendingFile, dailyFile, audit, now, ticks,
          nextTx, calls, started, broadcasts, approveReturned, rejectedOk,
          sentLog, faults>>

(* --------------------------- pure helpers ----------------------------- *)
\* daily-spend-store: todayUtc(), the UTC calendar day of the clock
getTodayUtc(t) == t \div MS_PER_DAY

\* service.ts:266-275, 498-503, 542-551, 556-562, 572-580: the audit entry
\* of an action on a pending record
txEntry(action, rec) ==
  [action |-> action, txId |-> rec.txId, walletId |-> rec.walletId,
   chainId |-> rec.chainId]

\* pending-store.ts get(): items.find(t => t.txId === txId) ?? null
storeGet(items, txId) == IF txId \in DOMAIN items THEN items[txId] ELSE NoRec

\* pending-store.ts update(): items[idx] = { ...items[idx], ...patch };
\* idx === -1 leaves the collection alone
storeMerge(items, txId, patch) ==
  IF storeGet(items, txId) = NoRec THEN items
  ELSE [items EXCEPT ![txId] =
          [f \in DOMAIN @ |-> IF f \in DOMAIN patch THEN patch[f] ELSE @[f]]]

\* pending-store.ts add(): no duplicate insert, else push
storeAdd(items, tx) ==
  IF storeGet(items, tx.txId) # NoRec THEN items
  ELSE [items EXCEPT ![tx.txId] = tx]

\* daily-spend-store getTotalForDate()
getTotalForDate(rec, date) == IF rec.date # date THEN 0 ELSE rec.totalWei

\* daily-spend-store addSpend(): the record that is saved
addSpend(rec, date, valueWei) ==
  [date |-> date,
   totalWei |-> IF rec.date = date THEN rec.totalWei + valueWei ELSE valueWei]

\* the limit check written with >= : a value equal to the limit is refused
exceedsLimitPerTx_orEqual(valueWei, lim) ==
  lim.limitPerTx # NoLimit /\ valueWei >= lim.limitPerTx

\* service.ts:241-244 / 447-452  if (valueWei > limit) throw
exceedsLimitPerTx(valueWei, lim) ==
  lim.limitPerTx # NoLimit /\ valueWei > lim.limitPerTx

\* service.ts:245-252 / 453-460  if (spent + valueWei > dayLimit) throw
exceedsDailyLimit(spent, valueWei, lim) ==
  lim.dailyLimit # NoLimit /\ spent + valueWei > lim.dailyLimit

\* the status test left out: any stored record passes
isPending_anyStatus(rec) == rec # NoRec

\* service.ts:493, 509, 570  status !== "pending"
isPending(rec) == rec # NoRec /\ rec.status = "pending"

\* service.ts:495-496  age > PENDING_TX_TTL_MS
isExpired(t, rec) == t - rec.createdAt > PENDING_TX_TTL_MS

\* String.prototype.trim / the regexp replace of service.ts:39: leading and
\* trailing characters of the set are removed
RECURSIVE stripStart(_, _)
stripStart(s, chars) ==
  IF s # <<>> /\ Head(s) \in chars THEN stripStart(Tail(s), chars) ELSE s
RECURSIVE stripEnd(_, _)
stripEnd(s, chars) ==
  IF s # <<>> /\ s[Len(s)] \in chars
    THEN stripEnd(SubSeq(s, 1, Len(s) - 1), chars) ELSE s
trim(s) == stripEnd(stripStart(s, {" "}), {" "})

lowerChar(ch) == CASE ch = "A" -> "a" [] ch = "B" -> "b" [] OTHER -> ch
upperChar(ch) == CASE ch = "a" -> "A" [] ch = "b" -> "B" [] OTHER -> ch
\* String.prototype.toLowerCase
toLowerCase(s) == [i \in 1..Len(s) |-> lowerChar(s[i])]

\* viem checksumAddress: the EIP-55 spelling of a lower-case address (which
\* digits are upper case is fixed by its hash; here: the first)
checksumAddress(lower) == [i \in 1..Len(lower) |->
                            IF i = 1 THEN upperChar(lower[i]) ELSE lower[i]]
\* viem isAddress (strict): well formed, and all lower case or checksummed
isAddress(s) ==
  /\ toLowerCase(s) \in LowerAddresses
  /\ s = toLowerCase(s) \/ s = checksumAddress(toLowerCase(s))
\* viem getAddress
getAddress(s) == checksumAddress(toLowerCase(s))

\* service.ts:37-41 validateAddress: the sanitized input
sanitizeAddress(raw) == trim(stripEnd(stripStart(trim(raw), QuoteChars), QuoteChars))
\* service.ts:42-49 validateAddress throws
isValidAddress(raw) == isAddress(sanitizeAddress(raw))
\* service.ts:50 validateAddress returns the checksummed address
validateAddress(raw) == getAddress(sanitizeAddress(raw))

\* the gate comparing the strings as they are, no trim and no lower-casing
isContractAllowed_exact(address, cfg) ==
  \/ cfg.interactWithUnverifiedContracts # "false"
  \/ address \in cfg.verifiedTokenAddresses \cup cfg.verifiedContractAddresses

\* service.ts:19-30 isContractAllowed
isContractAllowed(address, cfg) ==
  \/ cfg.interactWithUnverifiedContracts # "false"
  \/ toLowerCase(trim(address)) \in
       {toLowerCase(trim(a)) :
          a \in cfg.verifiedTokenAddresses \cup cfg.verifiedContractAddresses}

\* service.ts:228, 295, 341, 406  config.chains[chainId]
chainConfigured(chainId, cfg) == chainId \in DOMAIN cfg.chains
\* service.ts:230-234, 345-349, 436-440  allowedChains, when non-empty
chainAllowed(chainId, lim) ==
  lim.allowedChains = {} \/ chainId \in lim.allowedChains
\* an allowlist compared as written
recipientAllowed_exact(to, lim) ==
  lim.allowedRecipients = {} \/ to \in lim.allowedRecipients
\* service.ts:235-240, 351-356, 440-445  allowedRecipients, when not empty,
\* holds an entry that trims and lower-cases to to.toLowerCase()
recipientAllowed(to, lim) ==
  \/ lim.allowedRecipients = {}
  \/ toLowerCase(to) \in {toLowerCase(trim(r)) : r \in lim.allowedRecipients}
\* service.ts:126-135 getRpc with part_007:180-182 createRpcClient: there is
\* a client unless the chain is not configured or its rpcUrl trims to ""
rpcAvailable(chainId, cfg) ==
  chainConfigured(chainId, cfg) /\ trim(cfg.chains[chainId]) # <<>>

\* service.ts:255-264, 300-310, 358-368, 462-477 the PendingTx a request
\* Amounts are decimal strings.  BigInt(string) (service.ts:224, 297, 343,
\* 408) trims white space, reads the empty string as 0, takes one sign and
\* decimal digits, and throws a SyntaxError on anything else.
DigitChars == {"0", "1", "2", "5"}
digitValue(ch) == CASE ch = "1" -> 1 [] ch = "2" -> 2 [] ch = "5" -> 5 [] OTHER -> 0
digitChar(d) == CASE d = 1 -> "1" [] d = 2 -> "2" [] d = 5 -> "5" [] OTHER -> "0"
RECURSIVE decimalValue(_)
decimalValue(digits) ==
  IF digits = <<>> THEN 0
  ELSE decimalValue(SubSeq(digits, 1, Len(digits) - 1)) * 10
         + digitValue(digits[Len(digits)])
signOf(s) == IF s # <<>> /\ Head(s) \in {"-", "+"} THEN Head(s) ELSE ""
unsigned(s) == IF signOf(s) = "" THEN s ELSE Tail(s)
\* BigInt(s) does not throw
isBigIntString(s) ==
  \/ trim(s) = <<>>
  \/ /\ unsigned(trim(s)) # <<>>
     /\ \A i \in 1..Len(unsigned(trim(s))) : unsigned(trim(s))[i] \in DigitChars
\* BigInt(s)
BigInt(s) ==
  IF signOf(trim(s)) = "-" THEN 0 - decimalValue(unsigned(trim(s)))
  ELSE decimalValue(unsigned(trim(s)))
\* the decimal string of a small number (bigint.toString())
toString(n) == <<digitChar(n)>>

\* erc20.ts:12-26 with viem encodeFunctionData: a uint256 argument below 0
\* throws IntegerOutOfRangeError
\* ABI words: 64 hex digits in the code, WordChars here; an address
\* takes AddrChars of them
AddrChars == 2
MaxUint256 == 16 ^ WordChars - 1
HexChars == <<"0", "1", "2", "3", "4", "5", "6", "7",
              "8", "9", "a", "b", "c", "d", "e", "f">>
hexChar(d) == HexChars[d + 1]
hexValue(ch) == CHOOSE d \in 0..15 : HexChars[d + 1] = ch
\* viem numberToHex: big-endian hex digits, no leading zero
RECURSIVE numberToHex(_)
numberToHex(n) ==
  IF n < 16 THEN <<hexChar(n)>>
  ELSE Append(numberToHex(n \div 16), hexChar(n % 16))
\* viem hexToBigInt
RECURSIVE hexToNumber(_)
hexToNumber(s) ==
  IF s = <<>> THEN 0
  ELSE 16 * hexToNumber(SubSeq(s, 1, Len(s) - 1)) + hexValue(s[Len(s)])
\* a word keeping only the low digits of the number
padHex_right(s) == s \o [i \in 1..(WordChars - Len(s)) |-> "0"]
\* viem padHex (dir: left): zeros in front, up to one word
padHex(s) == [i \in 1..(WordChars - Len(s)) |-> "0"] \o s
\* viem encodeFunctionData refuses an amount outside uint256
\* (IntegerOutOfRangeError)
encodeRejects(amountWei) == amountWei < 0 \/ amountWei > MaxUint256
\* part_006:7-10 the selectors of approve(address,uint256) and
\* transfer(address,uint256)
APPROVE_SELECTOR == "095ea7b3"
TRANSFER_SELECTOR == "a9059cbb"
\* viem encodeFunctionData for (address, uint256): the selector, the
\* lower-cased address left-padded to a word, the amount as a word
encodeFunctionData(selector, address, amountWei) ==
  <<selector>> \o padHex(toLowerCase(address)) \o padHex(numberToHex(amountWei))
\* part_006:12-18
encodeErc20Approve(spender, amountWei) ==
  encodeFunctionData(APPROVE_SELECTOR, spender, amountWei)
\* part_006:20-26
encodeErc20Transfer(to, amountWei) ==
  encodeFunctionData(TRANSFER_SELECTOR, to, amountWei)
\* viem decodeFunctionData against the same ABI: the selector, the
\* checksummed address of the first word, the number of the second
decodeFunctionData(data) ==
  [selector |-> data[1],
   address |-> checksumAddress(SubSeq(data, 2 + WordChars - AddrChars,
                                      1 + WordChars)),
   amount |-> hexToNumber(SubSeq(data, 2 + WordChars, 1 + 2 * WordChars))]

\* tx-builder privateKeyToAddress: the address of a key
privateKeyToAddress(key) == IF key = K1 THEN W1 ELSE W2

\* service.ts:161-166, 178-183: the WalletMeta of a new or imported wallet
\* (its type is always "EVM")
newMeta(walletId, t) == [walletId |-> walletId, address |-> walletId, createdAt |-> t]

\* the lookup accepting any id
walletKnown_any(state, walletId) == TRUE
\* service.ts:150-151, 222, 292, 338, 403: state.wallets[walletId] is defined
walletKnown(state, walletId) ==
  walletId \in WalletIds /\ state.wallets[walletId] # NoMeta

\* persists
newPending(txId, valueWei, walletId, from, t, chainId, to, data) ==
  [txId |-> txId, walletId |-> walletId, from |-> from, valueWei |-> valueWei,
   createdAt |-> t, status |-> "pending", txHash |-> 0, error |-> "",
   chainId |-> chainId, to |-> to, data |-> data]

(* ------------------------------ calls --------------------------------- *)
EmptyItems == [t \in TxIds |-> NoRec]
NoDaily == [date |-> NoDate, totalWei |-> 0]
NoState == [defaultWalletId |-> NoWallet, wallets |-> [w \in WalletIds |-> NoMeta]]

IdleCall ==
  [op |-> "none", pc |-> "idle", txId |-> NoTx, valueWei |-> 0,
   walletId |-> NoWallet, chainId |-> NoChain, to |-> <<>>,
   state |-> NoState, pending |-> NoRec,
   freshCheck |-> NoRec, items |-> EmptyItems, spent |-> 0, rec |-> NoDaily, txHash |-> 0,
   error |-> "", result |-> "none", meta |-> NoMeta, entries |-> <<>>,
   amount |-> <<>>, spender |-> <<>>, privateKey |-> NoKey,
   nonce |-> NoNumber, gasLimit |-> NoNumber, tx |-> NoSignedTx, rpcCalls |-> {},
   fees |-> <<>>, backend |-> "none", arg |-> <<>>, command |-> <<>>,
   \* history of the call, read by the properties only
   first |-> "none", expired |-> FALSE, keyRead |-> FALSE, wrote |-> FALSE,
   afterApprove |-> FALSE, afterReject |-> FALSE]

Active(c) == calls[c].pc \notin DonePcs
ActiveCalls == {c \in Procs : Active(c)}

\* the native value the persisted record carries: params.valueWei for
\* requestSend / requestContractCall, "0" for the ERC-20 operations
recordValue(c) ==
  IF calls[c].op \in {"requestSend", "requestContractCall"}
  THEN calls[c].valueWei ELSE 0

\* what stays of a finished call: its arguments, its result and its history
Finished(c) ==
  [IdleCall EXCEPT !.op = calls[c].op, !.txId = calls[c].txId,
                   !.valueWei = recordValue(c), !.txHash = calls[c].txHash,
                   !.chainId = calls[c].chainId, !.to = calls[c].to,
                   !.error = calls[c].error, !.meta = calls[c].meta,
                   !.nonce = calls[c].nonce, !.gasLimit = calls[c].gasLimit,
                   !.tx = calls[c].tx, !.rpcCalls = calls[c].rpcCalls,
                   !.fees = calls[c].fees,
                   !.first = calls[c].first,
                   !.expired = calls[c].expired, !.keyRead = calls[c].keyRead,
                   !.wrote = calls[c].wrote,
                   !.afterApprove = calls[c].afterApprove,
                   !.afterReject = calls[c].afterReject]
\* the call returns `res` (a resolved promise)
Return(c, res) == [Finished(c) EXCEPT !.pc = "returned", !.result = res]
\* the call throws `msg` (a rejected promise)
Throw(c, msg) == [Finished(c) EXCEPT !.pc = "thrown", !.result = "thrown", !.error = msg]

\* the slot a new call takes
FreeSlot == CHOOSE c \in Procs : ~Active(c) /\ \A d \in Procs : d < c => Active(d)

\* the clock at the start: less than the TTL before the end of a UTC day
StartTime == MS_PER_DAY - PENDING_TX_TTL_MS - 1

\* the address the callers of the plain specifications send to
Addr1 == <<"a", "b">>

\* config.chains as resolved: chainId -> rpcUrl
CfgChains ==
  [ch \in {DefaultChain, OtherChain, BlankChain} |->
     IF ch = BlankChain THEN <<" ">> ELSE <<"h", "t", "t", "p">>]

\* a configuration without a contract gate
OpenConfig ==
  [chains |-> CfgChains, defaultChainId |-> DefaultChain,
   platform |-> "darwin",
   interactWithUnverifiedContracts |-> "unset",
   verifiedTokenAddresses |-> {}, verifiedContractAddresses |-> {}]

\* config.limits with and without the two value limits, in the default
\* spending mode
LimitConfigs ==
  {[mode |-> "notify", limitPerTx |-> CfgLimitPerTx, dailyLimit |-> CfgDailyLimit,
    allowedChains |-> {}, allowedRecipients |-> {}],
   [mode |-> "notify", limitPerTx |-> NoLimit, dailyLimit |-> NoLimit,
    allowedChains |-> {}, allowedRecipients |-> {}]}

\* The files of a state directory other than state.json, and no call made
InitStores(stored) ==
  /\ nextTx = stored
  /\ pendingFile = [t \in TxIds |->
                      IF t <= stored
                        THEN newPending(t, 1, W1, W1, StartTime, DefaultChain,
                                        getAddress(Addr1), NoData)
                      ELSE NoRec]
  /\ audit = [i \in 1..stored |->
                [action |-> "send_requested", txId |-> i, walletId |-> W1,
                 chainId |-> DefaultChain]]
  /\ dailyFile = NoDaily
  /\ now = StartTime
  /\ ticks = 0
  /\ calls = [c \in Procs |-> IdleCall]
  /\ started = 0
  /\ broadcasts = {}
  /\ approveReturned = {}
  /\ rejectedOk = {}
  /\ sentLog = {}
  /\ faults = 0

\* A state directory that holds one wallet, the default (as createWallet
\* leaves it), with `stored` requests already made: no pending record yet,
\* or the one record that requestSend({valueWei: "1"}) leaves.
OneWallet ==
  [defaultWalletId |-> W1,
   wallets |-> [w \in WalletIds |-> IF w = W1 THEN newMeta(W1, 0) ELSE NoMeta]]
InitState(stored) ==
  /\ walletState = OneWallet
  /\ InitStores(stored)

\* The service as constructed (service.ts:113-124) over that directory,
\* with or without value limits and without a contract gate
InitWith(stored) ==
  /\ limits \in LimitConfigs
  /\ config = OpenConfig
  /\ InitState(stored)

Init == InitWith(0)
InitLoaded == InitWith(1)

\* configurations with the contract gate closed: one verified token, or one
\* verified contract, spelled as a configuration file may spell them
GatedConfigs ==
  {[OpenConfig EXCEPT !.interactWithUnverifiedContracts = "false",
                      !.verifiedTokenAddresses = {<<" ", "A", "B">>}],
   [OpenConfig EXCEPT !.interactWithUnverifiedContracts = "false",
                      !.verifiedContractAddresses = {<<"b", "B", " ">>}]}

\* the service constructed with any of the policy configurations
InitPolicy ==
  /\ InitState(0)
  /\ \E lim \in LimitConfigs :
       limits = [lim EXCEPT !.allowedChains =
                   IF lim.dailyLimit = NoLimit THEN {} ELSE {DefaultChain}]
  /\ config \in GatedConfigs \cup
       {OpenConfig, [OpenConfig EXCEPT !.interactWithUnverifiedContracts = "true"]}

(* ----------------------- starting an operation ------------------------ *)
\* The next call id; at most MaxConcurrent calls are suspended at once.
CanStart ==
  /\ started < MaxCalls
  /\ \E c \in Procs : ~Active(c)

\* txIds a caller can name: returned by a request, or listed in the store
KnownTxIds ==
  {t \in TxIds :
     \/ pendingFile[t] # NoRec
     \/ \E c \in Procs : /\ calls[c].op \in RequestOps
                           /\ calls[c].pc = "returned"
                           /\ calls[c].txId = t}

\* requests in flight that have not drawn their txId yet
Undrawn == {c \in ActiveCalls : calls[c].op \in RequestOps /\ calls[c].txId = NoTx}

Untouched == UNCHANGED <<limits, config, walletState, pendingFile, dailyFile,
                         audit, now, ticks, nextTx, broadcasts, sentLog, faults,
                         approveReturned, rejectedOk>>

(* ------------------------- request operations ------------------------- *)
\* service.ts:219 (requestSend), 289, 335, 400: the call is made and
\* suspends at `await stateStore.load()`; the read of state.json completes.
\* The operations whose target is a contract validate it and pass it through
\* the gate before the first await (service.ts:285-288, 331-334, 394-399).
\* `to` is params.to, or params.tokenAddress of the ERC-20 operations, whose
\* `spender` is params.spender (approve) or params.to (transfer).
requestStartFor(op, valueWei, walletId, chainId, to, spender) ==
  /\ CanStart
  /\ nextTx + Cardinality(Undrawn) < MaxTx
  /\ LET call == [IdleCall EXCEPT !.op = op, !.amount = valueWei,
                                  !.valueWei = IF isBigIntString(valueWei)
                                                 THEN BigInt(valueWei) ELSE 0,
                                  !.walletId = walletId, !.chainId = chainId,
                                  !.to = to, !.spender = spender]
     IN calls' = [calls EXCEPT ![FreeSlot] =
          IF op \in GatedOps /\ ~isValidAddress(to)
            THEN [call EXCEPT !.pc = "thrown", !.result = "thrown",
                              !.error = "Invalid address"]
          ELSE IF op \in GatedOps /\ ~isContractAllowed(validateAddress(to), config)
            THEN [call EXCEPT !.pc = "thrown", !.result = "thrown",
                              !.error = "Not in verified addresses"]
          ELSE [call EXCEPT !.pc = "rq_state", !.state = walletState]]
  /\ started' = started + 1
  /\ Untouched

\* a request whose spender or recipient, if it has one, is Addr1
requestStart(op, valueWei, walletId, chainId, to) ==
  requestStartFor(op, valueWei, walletId, chainId, to,
                  IF op \in Erc20Ops THEN Addr1 ELSE <<>>)

requestSend(valueWei, walletId, chainId, to) ==
  requestStart("requestSend", valueWei, walletId, chainId, to)
requestErc20Approve(amountWei, walletId, chainId, tokenAddress) ==
  requestStart("requestErc20Approve", amountWei, walletId, chainId, tokenAddress)
requestErc20Transfer(amountWei, walletId, chainId, tokenAddress) ==
  requestStart("requestErc20Transfer", amountWei, walletId, chainId, tokenAddress)
requestContractCall(valueWei, walletId, chainId, to) ==
  requestStart("requestContractCall", valueWei, walletId, chainId, to)

\* service.ts:227, 294, 340, 405  params.chainId ?? defaultChainId
resolveChain(c) ==
  IF calls[c].chainId # NoChain THEN calls[c].chainId ELSE config.defaultChainId

\* the `data` of the record: none for a plain send (service.ts:255-264),
\* the encoded ERC-20 call (298, 356) or params.data (410)
recordData(c) ==
  CASE calls[c].op = "requestSend" -> NoData
    [] calls[c].op = "requestErc20Approve" ->
         encodeErc20Approve(validateAddress(calls[c].spender), calls[c].valueWei)
    [] calls[c].op = "requestErc20Transfer" ->
         encodeErc20Transfer(validateAddress(calls[c].spender), calls[c].valueWei)
    [] OTHER -> <<"0xdata">>

\* service.ts:220 / 290  params.walletId ?? state.defaultWalletId
resolveWallet(c) ==
  IF calls[c].walletId # NoWallet THEN calls[c].walletId
  ELSE calls[c].state.defaultWalletId

\* service.ts:245, 453: the operation consults the daily-spend ledger
checksDaily(c) ==
  /\ limits.dailyLimit # NoLimit
  /\ \/ calls[c].op = "requestSend"
     \/ calls[c].op = "requestContractCall" /\ calls[c].valueWei > 0

\* service.ts:254-265: draw the txId, build the record, call
\* pendingStore.add, whose load() reads pending.json
requestBuild(c) ==
  /\ nextTx' = nextTx + 1
  /\ calls' = [calls EXCEPT ![c] =
       [@ EXCEPT !.pc = "rq_add", !.txId = nextTx + 1,
                 !.valueWei = recordValue(c),
                 !.chainId = resolveChain(c),
                 !.to = validateAddress(calls[c].to),
                 !.pending = newPending(nextTx + 1, recordValue(c),
                                        resolveWallet(c),
                                        calls[c].state.wallets[resolveWallet(c)].address,
                                        now, resolveChain(c),
                                        validateAddress(calls[c].to),
                                        recordData(c)),
                 !.items = pendingFile]]

\* service.ts:220-244 (requestSend), 290-296 (requestErc20Approve, which
\* has no amount and no allowedChains check), 336-349 (requestErc20Transfer),
\* 401-452 (requestContractCall): the checks made when the state load
\* resolves, in the order of each operation; "" when all pass
requestError(c) ==
  LET op == calls[c].op
      w == resolveWallet(c)
      noChain == ~chainConfigured(resolveChain(c), config)
      badSyntax == ~isBigIntString(calls[c].amount)
      recipient == validateAddress(IF op = "requestErc20Transfer"
                                     THEN calls[c].spender ELSE calls[c].to)
      badValue == op \in {"requestSend", "requestErc20Transfer"}
                  /\ calls[c].valueWei <= 0
  IN
  IF w = NoWallet THEN "No default wallet"
  ELSE IF ~walletKnown(calls[c].state, w) THEN "Wallet not found"
  ELSE IF op = "requestSend" /\ badSyntax THEN "SyntaxError"
  ELSE IF op = "requestSend" /\ badValue THEN "Value must be positive"
  ELSE IF op = "requestSend" /\ ~isValidAddress(calls[c].to)
    THEN "Invalid address"
  ELSE IF noChain THEN "Chain not configured"
  ELSE IF op \in Erc20Ops /\ ~isValidAddress(calls[c].spender)
    THEN "Invalid address"
  ELSE IF badSyntax THEN "SyntaxError"
  ELSE IF op = "requestErc20Approve" /\ encodeRejects(calls[c].valueWei)
    THEN "IntegerOutOfRange"
  ELSE IF op = "requestContractCall" /\ calls[c].valueWei < 0
    THEN "valueWei must be non-negative"
  ELSE IF badValue THEN "Value must be positive"
  ELSE IF op # "requestErc20Approve" /\ ~chainAllowed(resolveChain(c), limits)
    THEN "Chain not allowed"
  ELSE IF op # "requestErc20Approve" /\ ~recipientAllowed(recipient, limits)
    THEN "Recipient not in allowedRecipients"
  ELSE IF op = "requestErc20Transfer" /\ encodeRejects(calls[c].valueWei)
    THEN "IntegerOutOfRange"
  ELSE IF op \in {"requestSend", "requestContractCall"}
          /\ exceedsLimitPerTx(calls[c].valueWei, limits)
    THEN "Value exceeds limitPerTx"
  ELSE ""

\* the state load resolves: a failed check throws; otherwise either the
\* daily-spend read (service.ts:245-248, 453-455) or the store add follows
requestValidate(c) ==
  /\ calls[c].pc = "rq_state"
  /\ IF requestError(c) # ""
       THEN /\ calls' = [calls EXCEPT ![c] = Throw(c, requestError(c))]
            /\ UNCHANGED nextTx
     ELSE IF checksDaily(c)
       THEN /\ calls' = [calls EXCEPT ![c] =
                 [@ EXCEPT !.pc = "rq_daily",
                           !.spent = getTotalForDate(dailyFile, getTodayUtc(now))]]
            /\ UNCHANGED nextTx
     ELSE requestBuild(c)
  /\ UNCHANGED <<limits, config, walletState, pendingFile, dailyFile, audit, now, ticks,
                 started, broadcasts, sentLog, faults,
                 approveReturned, rejectedOk>>

\* service.ts:248-265 / 455-478: the projection against dailyLimit, run when
\* getTotalForDate resolves
requestDaily(c) ==
  /\ calls[c].pc = "rq_daily"
  /\ IF exceedsDailyLimit(calls[c].spent, calls[c].valueWei, limits)
       THEN /\ calls' = [calls EXCEPT ![c] = Throw(c, "Would exceed dailyLimit")]
            /\ UNCHANGED nextTx
       ELSE requestBuild(c)
  /\ UNCHANGED <<limits, config, walletState, pendingFile, dailyFile, audit, now, ticks,
                 started, broadcasts, sentLog, faults,
                 approveReturned, rejectedOk>>

\* service.ts:267, 313, 371, 480: the audit action of each request
requestedAction(op) ==
  CASE op = "requestSend" -> "send_requested"
    [] op = "requestErc20Approve" -> "erc20_approve_requested"
    [] op = "requestErc20Transfer" -> "erc20_transfer_requested"
    [] OTHER -> "contract_call_requested"

\* pending-store.ts:45-50 add(): the loaded collection plus the record is
\* written back as a whole
requestAdd(c) ==
  /\ calls[c].pc = "rq_add"
  /\ IF storeGet(calls[c].items, calls[c].txId) # NoRec
       THEN UNCHANGED pendingFile
       ELSE pendingFile' = storeAdd(calls[c].items, calls[c].pending)
  /\ calls' = [calls EXCEPT ![c] =
       [@ EXCEPT !.pc = "rq_audit", !.items = EmptyItems, !.wrote = TRUE]]
  /\ UNCHANGED <<limits, config, walletState, dailyFile, audit, now, ticks, nextTx,
                 started, broadcasts, sentLog, faults,
                 approveReturned, rejectedOk>>

\* service.ts:266-275, 312-321, 370-379, 479-487: audit.append, then return
requestAudit(c) ==
  /\ calls[c].pc = "rq_audit"
  /\ audit' = Append(audit, txEntry(requestedAction(calls[c].op), calls[c].pending))
  /\ calls' = [calls EXCEPT ![c] = Return(c, "txId")]
  /\ UNCHANGED <<limits, config, walletState, pendingFile, dailyFile, now, ticks,
                 nextTx, started, broadcasts, sentLog, faults,
                 approveReturned, rejectedOk>>

\* an adapter that stores keys on every platform
keychainStores_any(cfg) == TRUE
\* keychain.ts createKeychainAdapter: the adapter stores keys on macOS only;
\* elsewhere createWallet and importWallet throw and getPrivateKey returns
\* null
keychainStores(cfg) == cfg.platform = "darwin"
\* keychain.ts getPrivateKey when the entry of the wallet exists: the key
\* stored under it, which is the key the walletId was derived from
getPrivateKey(walletId) == CHOOSE key \in Keys : privateKeyToAddress(key) = walletId

(* ------------------------------ approveTx ----------------------------- *)
\* service.ts:490-491: the call is made and suspends at
\* `await pendingStore.get(txId)`; the read of pending.json completes.
approveTx(txId) ==
  /\ CanStart
  /\ calls' = [calls EXCEPT ![FreeSlot] =
       [IdleCall EXCEPT
          !.op = "approveTx", !.pc = "ap_get", !.txId = txId,
          !.pending = storeGet(pendingFile, txId),
          !.first = storeGet(pendingFile, txId).status,
          !.afterApprove = txId \in approveReturned,
          !.afterReject = txId \in rejectedOk]]
  /\ started' = started + 1
  /\ Untouched

\* history: an approveTx call on the txId of call c has returned
returnedFor(c) == approveReturned \cup ({calls[c].txId} \cap TxIds)

\* service.ts:492-508: not found / not pending return an error; an expired
\* record goes to update(failed), whose load() reads pending.json; otherwise
\* the re-read `freshCheck = await pendingStore.get(txId)` is issued.
approveTx_check(c) ==
  /\ calls[c].pc = "ap_get"
  /\ calls' = [calls EXCEPT ![c] =
       IF calls[c].pending = NoRec
         THEN [Return(c, "error") EXCEPT !.error = "Pending tx not found"]
       ELSE IF ~isPending(calls[c].pending)
         THEN [Return(c, "error") EXCEPT !.error = "Tx status is not pending"]
       ELSE IF isExpired(now, calls[c].pending)
         THEN [@ EXCEPT !.pc = "ap_exp_save", !.expired = TRUE,
                        !.items = pendingFile]
       ELSE [@ EXCEPT !.pc = "ap_fresh",
                      !.freshCheck = storeGet(pendingFile, calls[c].txId)]]
  /\ approveReturned' = IF isPending(calls[c].pending) THEN approveReturned
                        ELSE returnedFor(c)
  /\ UNCHANGED <<limits, config, walletState, pendingFile, dailyFile, audit, now, ticks,
                 nextTx, started, broadcasts, sentLog, faults, rejectedOk>>

\* the write of a store update: pending-store.ts:57-60, the loaded
\* collection with the patched record is written back as a whole; nothing is
\* written when the loaded collection does not hold the record
updateSave(c, patch) ==
  IF storeGet(calls[c].items, calls[c].txId) = NoRec
    THEN UNCHANGED pendingFile
    ELSE pendingFile' = storeMerge(calls[c].items, calls[c].txId, patch)

\* history: the call has written pending.json
wrote(c) == calls[c].wrote \/ storeGet(calls[c].items, calls[c].txId) # NoRec

\* service.ts:497: update(txId, {status: "failed", error: expired}) saves
approveTx_expSave(c) ==
  /\ calls[c].pc = "ap_exp_save"
  /\ updateSave(c, [status |-> "failed", error |-> "Pending tx expired (>30min)"])
  /\ calls' = [calls EXCEPT ![c] =
       [@ EXCEPT !.pc = "ap_exp_audit", !.items = EmptyItems, !.wrote = wrote(c)]]
  /\ UNCHANGED <<limits, config, walletState, dailyFile, audit, now, ticks, nextTx,
                 started, broadcasts, sentLog, faults,
                 approveReturned, rejectedOk>>

\* service.ts:498-504: audit 'send_expired', return the expiration error
approveTx_expAudit(c) ==
  /\ calls[c].pc = "ap_exp_audit"
  /\ audit' = Append(audit, txEntry("send_expired", calls[c].pending))
  /\ calls' = [calls EXCEPT ![c] =
       [Return(c, "error") EXCEPT !.error = "Pending tx expired"]]
  /\ approveReturned' = returnedFor(c)
  /\ UNCHANGED <<limits, config, walletState, pendingFile, dailyFile, now, ticks,
                 nextTx, started, broadcasts, sentLog, faults, rejectedOk>>

\* service.ts:509-512: the re-read record decides; if still pending,
\* update(txId, {status: "approved"}) is called and its load() reads
\* pending.json
approveTx_recheck(c) ==
  /\ calls[c].pc = "ap_fresh"
  /\ calls' = [calls EXCEPT ![c] =
       IF ~isPending(calls[c].freshCheck)
         THEN [Return(c, "error") EXCEPT !.error = "Tx already processed"]
         ELSE [@ EXCEPT !.pc = "ap_mark_save", !.items = pendingFile]]
  /\ approveReturned' = IF isPending(calls[c].freshCheck) THEN approveReturned
                        ELSE returnedFor(c)
  /\ UNCHANGED <<limits, config, walletState, pendingFile, dailyFile, audit, now, ticks,
                 nextTx, started, broadcasts, sentLog, faults, rejectedOk>>

\* service.ts:512: the save of status 'approved'
approveTx_markSave(c) ==
  /\ calls[c].pc = "ap_mark_save"
  /\ updateSave(c, [status |-> "approved"])
  /\ calls' = [calls EXCEPT ![c] =
       [@ EXCEPT !.pc = "ap_marked", !.items = EmptyItems, !.wrote = wrote(c)]]
  /\ UNCHANGED <<limits, config, walletState, dailyFile, audit, now, ticks, nextTx,
                 started, broadcasts, sentLog, faults,
                 approveReturned, rejectedOk>>

\* service.ts:514-517: keychain.getPrivateKey returned null;
\* update(failed) is called and its load() reads pending.json
approveTx_noKey(c) ==
  /\ calls[c].pc = "ap_marked"
  /\ calls' = [calls EXCEPT ![c] =
       [@ EXCEPT !.pc = "ap_nokey_save", !.keyRead = TRUE,
                 !.error = "Cannot read wallet key", !.items = pendingFile]]
  /\ Untouched /\ UNCHANGED started

\* service.ts:516: the patch {status: "failed", error: "Cannot read wallet key"}
keyFailedPatch(error) == [status |-> "failed", error |-> error]

\* service.ts:516-517: the save of 'failed', then return the error
approveTx_noKeySave(c) ==
  /\ calls[c].pc = "ap_nokey_save"
  /\ updateSave(c, keyFailedPatch(calls[c].error))
  /\ calls' = [calls EXCEPT ![c] =
       [Return(c, "error") EXCEPT !.wrote = wrote(c)]]
  /\ approveReturned' = returnedFor(c)
  /\ UNCHANGED <<limits, config, walletState, dailyFile, audit, now, ticks, nextTx,
                 started, broadcasts, sentLog, faults, rejectedOk>>

\* service.ts:514-519: the key is read, then getRpc(pending.chainId) throws,
\* outside the try block: the promise of approveTx rejects
approveTx_noRpc(c) ==
  /\ calls[c].pc = "ap_marked"
  /\ keychainStores(config)
  /\ ~rpcAvailable(calls[c].pending.chainId, config)
  /\ calls' = [calls EXCEPT ![c] =
       [Throw(c, "RPC client unavailable") EXCEPT !.keyRead = TRUE]]
  /\ approveReturned' = returnedFor(c)
  /\ UNCHANGED <<limits, config, walletState, pendingFile, dailyFile, audit, now,
                 ticks, nextTx, started, broadcasts, sentLog, faults,
                 rejectedOk>>

\* service.ts:514-536, 553-555: the key is read, then buildAndSignTx or
\* rpc.sendRawTransaction throws; the catch block calls update(failed),
\* whose load() reads pending.json
approveTx_signFails(c) ==
  /\ calls[c].pc = "ap_marked"
  /\ keychainStores(config)
  /\ rpcAvailable(calls[c].pending.chainId, config)
  /\ calls' = [calls EXCEPT ![c] =
       [@ EXCEPT !.pc = "ap_fail_save", !.keyRead = TRUE,
                 !.privateKey = getPrivateKey(calls[c].pending.walletId),
                 !.error = "sign or broadcast failed", !.items = pendingFile]]
  /\ Untouched /\ UNCHANGED started

\* service.ts:514-536: the key is read, the transaction is built and signed,
\* and rpc.sendRawTransaction broadcasts it and returns its hash
approveTx_broadcast(c) ==
  /\ calls[c].pc = "ap_marked"
  /\ keychainStores(config)
  /\ rpcAvailable(calls[c].pending.chainId, config)
  /\ LET h == Cardinality(broadcasts) + 1 IN
       /\ broadcasts' = broadcasts \cup
            {[txId |-> calls[c].txId, hash |-> h, op |-> calls[c].op,
              first |-> calls[c].first,
              afterApprove |-> calls[c].afterApprove,
              afterReject |-> calls[c].afterReject,
              expired |-> calls[c].expired]}
       /\ calls' = [calls EXCEPT ![c] =
            [@ EXCEPT !.pc = "ap_broadcast", !.keyRead = TRUE, !.txHash = h,
                      !.privateKey = getPrivateKey(calls[c].pending.walletId)]]
  /\ UNCHANGED <<limits, config, walletState, pendingFile, dailyFile, audit, now,
                 ticks, nextTx, started, sentLog, faults,
                 approveReturned, rejectedOk>>

\* service.ts:537: update(txId, {status: "sent", txHash}) is called and its
\* load() reads pending.json
approveTx_sentLoad(c) ==
  /\ calls[c].pc = "ap_broadcast"
  /\ calls' = [calls EXCEPT ![c] =
       [@ EXCEPT !.pc = "ap_sent_save", !.items = pendingFile]]
  /\ Untouched /\ UNCHANGED started

\* the patch without the hash
sentPatch_noHash(txHash) == [status |-> "sent"]

\* service.ts:537: the patch { status: "sent", txHash }
sentPatch(txHash) == [status |-> "sent", txHash |-> txHash]

\* service.ts:537: the save of status 'sent' with the hash
approveTx_sentSave(c) ==
  /\ calls[c].pc = "ap_sent_save"
  /\ updateSave(c, sentPatch(calls[c].txHash))
  /\ sentLog' = IF storeGet(calls[c].items, calls[c].txId) = NoRec THEN sentLog
                ELSE sentLog \cup {[txId |-> calls[c].txId,
                                    day |-> getTodayUtc(now),
                                    valueWei |-> calls[c].pending.valueWei]}
  /\ calls' = [calls EXCEPT ![c] =
       [@ EXCEPT !.pc = "ap_sent_saved", !.items = EmptyItems, !.wrote = wrote(c)]]
  /\ UNCHANGED <<limits, config, walletState, dailyFile, audit, now, ticks, nextTx,
                 started, broadcasts, faults,
                 approveReturned, rejectedOk>>

\* service.ts:538-541: with dailyLimit configured, addSpend(today, value) is
\* called and its load() reads daily-spend.json
approveTx_spendLoad(c) ==
  /\ calls[c].pc = "ap_sent_saved"
  /\ limits.dailyLimit # NoLimit
  /\ calls' = [calls EXCEPT ![c] =
       [@ EXCEPT !.pc = "ap_spend_save",
                 !.rec = addSpend(dailyFile, getTodayUtc(now),
                                  calls[c].pending.valueWei)]]
  /\ Untouched /\ UNCHANGED started

\* daily-spend-store addSpend(): the save of the new total
approveTx_spendSave(c) ==
  /\ calls[c].pc = "ap_spend_save"
  /\ dailyFile' = calls[c].rec
  /\ calls' = [calls EXCEPT ![c] = [@ EXCEPT !.pc = "ap_spent", !.rec = NoDaily]]
  /\ UNCHANGED <<limits, config, walletState, pendingFile, audit, now, ticks, nextTx,
                 started, broadcasts, sentLog, faults,
                 approveReturned, rejectedOk>>

\* service.ts:542-552: audit 'send_approved', return {txHash, chainId}
approveTx_sentAudit(c) ==
  /\ \/ calls[c].pc = "ap_spent"
     \/ calls[c].pc = "ap_sent_saved" /\ limits.dailyLimit = NoLimit
  /\ audit' = Append(audit, txEntry("send_approved", calls[c].pending))
  /\ calls' = [calls EXCEPT ![c] =
       [Return(c, "txHash") EXCEPT !.chainId = calls[c].pending.chainId]]
  /\ approveReturned' = returnedFor(c)
  /\ UNCHANGED <<limits, config, walletState, pendingFile, dailyFile, now, ticks,
                 nextTx, started, broadcasts, sentLog, faults, rejectedOk>>

\* a catch block that stores the key it holds instead of the message
catchPatch_key(c) == [status |-> "failed", error |-> calls[c].privateKey]
\* service.ts:554-555: the patch of the catch block, {status: "failed",
\* error: message}
catchPatch(c) == [status |-> "failed", error |-> calls[c].error]

\* service.ts:555: the catch block's save of status 'failed' with the message
approveTx_failSave(c) ==
  /\ calls[c].pc = "ap_fail_save"
  /\ updateSave(c, catchPatch(c))
  /\ calls' = [calls EXCEPT ![c] =
       [@ EXCEPT !.pc = "ap_fail_audit", !.items = EmptyItems, !.wrote = wrote(c)]]
  /\ UNCHANGED <<limits, config, walletState, dailyFile, audit, now, ticks, nextTx,
                 started, broadcasts, sentLog, faults,
                 approveReturned, rejectedOk>>

\* service.ts:556-563: audit 'send_failed', return {error}
approveTx_failAudit(c) ==
  /\ calls[c].pc = "ap_fail_audit"
  /\ audit' = Append(audit, txEntry("send_failed", calls[c].pending)
                             @@ [error |-> calls[c].error])
  /\ calls' = [calls EXCEPT ![c] = Return(c, "error")]
  /\ approveReturned' = returnedFor(c)
  /\ UNCHANGED <<limits, config, walletState, pendingFile, dailyFile, now, ticks,
                 nextTx, started, broadcasts, sentLog, faults, rejectedOk>>

(* ------------------------------ rejectTx ------------------------------ *)
\* service.ts:567-568: the call is made and suspends at
\* `await pendingStore.get(txId)`; the read of pending.json completes.
rejectTx(txId) ==
  /\ CanStart
  /\ calls' = [calls EXCEPT ![FreeSlot] =
       [IdleCall EXCEPT !.op = "rejectTx", !.pc = "rj_get", !.txId = txId,
                        !.pending = storeGet(pendingFile, txId),
                        !.first = storeGet(pendingFile, txId).status]]
  /\ started' = started + 1
  /\ Untouched

\* service.ts:569-571: not found / not pending return {ok: false}; else
\* update(txId, {status: "rejected"}) is called and its load() reads
\* pending.json
rejectTx_check(c) ==
  /\ calls[c].pc = "rj_get"
  /\ calls' = [calls EXCEPT ![c] =
       IF calls[c].pending = NoRec
         THEN [Return(c, "notok") EXCEPT !.error = "Pending tx not found"]
       ELSE IF ~isPending(calls[c].pending)
         THEN [Return(c, "notok") EXCEPT !.error = "Tx status is not pending"]
       ELSE [@ EXCEPT !.pc = "rj_save", !.items = pendingFile]]
  /\ Untouched /\ UNCHANGED started

\* service.ts:571: the save of status 'rejected'
rejectTx_save(c) ==
  /\ calls[c].pc = "rj_save"
  /\ updateSave(c, [status |-> "rejected"])
  /\ calls' = [calls EXCEPT ![c] =
       [@ EXCEPT !.pc = "rj_audit", !.items = EmptyItems, !.wrote = wrote(c)]]
  /\ UNCHANGED <<limits, config, walletState, dailyFile, audit, now, ticks, nextTx,
                 started, broadcasts, sentLog, faults,
                 approveReturned, rejectedOk>>

\* service.ts:572-581: audit 'send_rejected', return {ok: true}
rejectTx_audit(c) ==
  /\ calls[c].pc = "rj_audit"
  /\ audit' = Append(audit, txEntry("send_rejected", calls[c].pending))
  /\ calls' = [calls EXCEPT ![c] = Return(c, "ok")]
  /\ rejectedOk' = rejectedOk \cup {calls[c].txId}
  /\ UNCHANGED <<limits, config, walletState, pendingFile, dailyFile, now, ticks,
                 nextTx, started, broadcasts, sentLog, faults, approveReturned>>

(* ------------------------------ queries ------------------------------- *)
\* service.ts:584-586: getPendingTx returns pendingStore.get(txId)
getPendingTx(txId) ==
  /\ CanStart
  /\ calls' = [calls EXCEPT ![FreeSlot] =
       [IdleCall EXCEPT !.op = "getPendingTx", !.pc = "returned",
                        !.txId = txId, !.result = "record",
                        !.pending = storeGet(pendingFile, txId)]]
  /\ started' = started + 1
  /\ Untouched

\* service.ts:588-591: listPending returns the records with status 'pending'
listPending ==
  /\ CanStart
  /\ calls' = [calls EXCEPT ![FreeSlot] =
       [IdleCall EXCEPT !.op = "listPending", !.pc = "returned",
                        !.result = "list",
                        !.items = [t \in TxIds |->
                                     IF isPending(pendingFile[t])
                                     THEN pendingFile[t] ELSE NoRec]]]
  /\ started' = started + 1
  /\ Untouched

\* Array.prototype.reverse
RECURSIVE reverse(_)
reverse(seq) ==
  IF seq = <<>> THEN <<>> ELSE Append(reverse(Tail(seq)), Head(seq))

\* no filter.action given
AnyAction == ""
\* filter.limit ?? 50
DEFAULT_LIMIT == 50

\* audit.ts query(): the entries matching the filter, most recent first,
\* cut to the limit
\* the matching entries in the order of the file
auditQuery_oldestFirst(log, filter) ==
  LET matches(e) ==
        /\ filter.walletId = NoWallet \/ e.walletId = filter.walletId
        /\ filter.chainId = NoChain \/ e.chainId = filter.chainId
        /\ filter.action = AnyAction \/ e.action = filter.action
      found == SelectSeq(log, matches)
      limit == IF filter.limit = NoNumber THEN DEFAULT_LIMIT ELSE filter.limit
  IN SubSeq(found, 1, IF limit < Len(found) THEN limit ELSE Len(found))
\* part_005:50-77 query(): the entries that pass the given filters, reversed,
\* sliced to the limit (a count; 50 when none is given)
auditQuery(log, filter) ==
  LET matches(e) ==
        /\ filter.walletId = NoWallet \/ e.walletId = filter.walletId
        /\ filter.chainId = NoChain \/ e.chainId = filter.chainId
        /\ filter.action = AnyAction \/ e.action = filter.action
      found == reverse(SelectSeq(log, matches))
      limit == IF filter.limit = NoNumber THEN DEFAULT_LIMIT ELSE filter.limit
  IN SubSeq(found, 1, IF limit < Len(found) THEN limit ELSE Len(found))

\* service.ts:593-595: queryHistory returns audit.query(filter)
queryHistory(filter) ==
  /\ CanStart
  /\ calls' = [calls EXCEPT ![FreeSlot] =
       [IdleCall EXCEPT !.op = "queryHistory", !.pc = "returned",
                        !.result = "entries",
                        !.entries = auditQuery(audit, filter)]]
  /\ started' = started + 1
  /\ Untouched

(* --------------------------- buildAndSignTx --------------------------- *)
\* tx-builder.ts:10-11
GAS_FEE_BUFFER_MULTIPLIER == 120
GAS_FEE_BUFFER_DIVISOR == 100
\* tx-builder.ts:56  the buffer added to the gas estimate
GAS_BUFFER == 10000
\* a buffer that divides before it multiplies
bufferedFee_divideFirst(estimate) ==
  (estimate \div GAS_FEE_BUFFER_DIVISOR) * GAS_FEE_BUFFER_MULTIPLIER
\* tx-builder.ts:63-65, 79  (estimate * 120n) / 100n on bigints
bufferedFee(estimate) ==
  (estimate * GAS_FEE_BUFFER_MULTIPLIER) \div GAS_FEE_BUFFER_DIVISOR

\* service.ts:521-536 with tx-builder.ts:33-49: approveTx passes the
\* record's nonce and gasLimit in txParams; the builder derives the account
\* and suspends at `await params.rpc.getTransactionCount(from)`
buildAndSignTx(valueWei, nonce, gasLimit) ==
  /\ CanStart
  /\ calls' = [calls EXCEPT ![FreeSlot] =
       [IdleCall EXCEPT !.op = "buildAndSignTx", !.pc = "bs_nonce",
                        !.valueWei = valueWei, !.nonce = nonce,
                        !.gasLimit = gasLimit,
                        !.rpcCalls = {"getTransactionCount"}]]
  /\ started' = started + 1
  /\ Untouched

\* an RPC request of the builder rejects outside its try block
\* (tx-builder.ts:49, 50, 78, 92): buildAndSignTx throws
buildAndSignTx_rpcFails(c) ==
  /\ calls[c].pc \in {"bs_nonce", "bs_gas", "bs_price"}
  /\ calls' = [calls EXCEPT ![c] = Throw(c, "rpc request failed")]
  /\ Untouched /\ UNCHANGED started

\* tx-builder.ts:49-50: the transaction count arrives; estimateGas is called
buildAndSignTx_count(c, count) ==
  /\ calls[c].pc = "bs_nonce"
  /\ calls' = [calls EXCEPT ![c] =
       [@ EXCEPT !.pc = "bs_gas",
                 !.tx = [type |-> "unsigned", nonce |-> count],
                 !.rpcCalls = @ \cup {"estimateGas"}]]
  /\ Untouched /\ UNCHANGED started

\* tx-builder.ts:50-62: the estimate arrives, the buffer is added, and
\* estimateFeesPerGas is called inside the try block
buildAndSignTx_gas(c, estimate) ==
  /\ calls[c].pc = "bs_gas"
  /\ calls' = [calls EXCEPT ![c] =
       [@ EXCEPT !.pc = "bs_fees",
                 !.tx = [type |-> "unsigned", nonce |-> calls[c].tx.nonce,
                         gas |-> estimate + GAS_BUFFER],
                 !.rpcCalls = @ \cup {"estimateFeesPerGas"}]]
  /\ Untouched /\ UNCHANGED started

\* tx-builder.ts:62-76, 92-93: the fee estimates arrive; the EIP-1559
\* transaction is built and signed
buildAndSignTx_fees(c, maxFeePerGas, maxPriorityFeePerGas) ==
  /\ calls[c].pc = "bs_fees"
  /\ calls' = [calls EXCEPT ![c] =
       [Return(c, "signed") EXCEPT
          !.fees = <<maxFeePerGas, maxPriorityFeePerGas>>,
          !.tx = [type |-> "eip1559", nonce |-> calls[c].tx.nonce,
                  gas |-> calls[c].tx.gas,
                  maxFeePerGas |-> bufferedFee(maxFeePerGas),
                  maxPriorityFeePerGas |-> bufferedFee(maxPriorityFeePerGas)]]]
  /\ Untouched /\ UNCHANGED started

\* tx-builder.ts:77-78: estimateFeesPerGas rejects; the catch block calls
\* getGasPrice
buildAndSignTx_noFees(c) ==
  /\ calls[c].pc = "bs_fees"
  /\ calls' = [calls EXCEPT ![c] =
       [@ EXCEPT !.pc = "bs_price", !.rpcCalls = @ \cup {"getGasPrice"}]]
  /\ Untouched /\ UNCHANGED started

\* tx-builder.ts:78-93: the gas price arrives; the legacy transaction is
\* built and signed
buildAndSignTx_price(c, gasPrice) ==
  /\ calls[c].pc = "bs_price"
  /\ calls' = [calls EXCEPT ![c] =
       [Return(c, "signed") EXCEPT
          !.fees = <<gasPrice>>,
          !.tx = [type |-> "legacy", nonce |-> calls[c].tx.nonce,
                  gas |-> calls[c].tx.gas,
                  gasPrice |-> bufferedFee(gasPrice)]]]
  /\ Untouched /\ UNCHANGED started

(* ------------------------ registry operations ------------------------ *)
RegistryOps == {"createWallet", "importWallet", "recoverFromMnemonic",
                "setDefaultWallet", "ensureDefaultWallet"}
M1 == "m1"
BadMnemonic == "m?"
\* mnemonic.ts:7-16 mnemonicToPrivateKeyHex: the key of a valid mnemonic
mnemonicToPrivateKeyHex(mnemonic) == IF mnemonic = M1 THEN K1 ELSE BadKey

\* walletIds that a key generated now cannot collide with (randomBytes(32))
TakenWalletIds ==
  {w \in WalletIds : walletState.wallets[w] # NoMeta}
    \cup {calls[c].meta.walletId : c \in ActiveCalls}

\* service.ts:159-167 (createWallet), 176-184 (importWallet): the keychain
\* call and the meta are made before the first await; the call suspends at
\* `await stateStore.load()` and the read of state.json completes.
\* `stored` is whether the keychain command succeeded.
walletCall(call, key, stored) ==
  IF ~keychainStores(config)
    THEN [call EXCEPT !.pc = "thrown", !.result = "thrown",
                      !.error = "Wallet keychain is only supported on macOS"]
  ELSE IF key \notin Keys
    THEN [call EXCEPT !.pc = "thrown", !.result = "thrown",
                      !.error = "Invalid private key"]
  ELSE IF ~stored
    THEN [call EXCEPT !.pc = "thrown", !.result = "thrown",
                      !.error = "keychain"]
  ELSE [call EXCEPT !.pc = "wl_save", !.state = walletState,
                    !.privateKey = key,
                    !.meta = newMeta(privateKeyToAddress(key), now)]

createWallet(key, stored) ==
  /\ CanStart
  /\ privateKeyToAddress(key) \notin TakenWalletIds
  /\ calls' = [calls EXCEPT ![FreeSlot] =
       walletCall([IdleCall EXCEPT !.op = "createWallet"], key, stored)]
  /\ started' = started + 1
  /\ Untouched

importWallet(privateKeyHex, stored) ==
  /\ CanStart
  /\ calls' = [calls EXCEPT ![FreeSlot] =
       walletCall([IdleCall EXCEPT !.op = "importWallet"], privateKeyHex, stored)]
  /\ started' = started + 1
  /\ Untouched

\* service.ts:192-195: derive the key (throws on a bad mnemonic), then
\* importWallet
recoverFromMnemonic(mnemonic, stored) ==
  /\ CanStart
  /\ calls' = [calls EXCEPT ![FreeSlot] =
       IF mnemonicToPrivateKeyHex(mnemonic) = BadKey
         THEN [IdleCall EXCEPT !.op = "recoverFromMnemonic", !.pc = "thrown",
                               !.result = "thrown",
                               !.error = "Failed to derive private key"]
       ELSE walletCall([IdleCall EXCEPT !.op = "recoverFromMnemonic"],
                       mnemonicToPrivateKeyHex(mnemonic), stored)]
  /\ started' = started + 1
  /\ Untouched

\* service.ts:168-170, 185-187: the loaded state gets the meta, and the
\* default when it has none
withWallet(state, meta) ==
  [defaultWalletId |-> IF state.defaultWalletId = NoWallet THEN meta.walletId
                       ELSE state.defaultWalletId,
   wallets |-> [state.wallets EXCEPT ![meta.walletId] = meta]]

\* service.ts:168-171, 185-188: the load resolves; the changed state is
\* written back as a whole
wallet_save(c) ==
  /\ calls[c].pc = "wl_save"
  /\ walletState' = withWallet(calls[c].state, calls[c].meta)
  /\ calls' = [calls EXCEPT ![c] =
       [@ EXCEPT !.pc = "wl_audit", !.state = NoState, !.wrote = TRUE]]
  /\ UNCHANGED <<limits, config, pendingFile, dailyFile, audit, now, ticks,
                 nextTx, started, broadcasts, sentLog, faults,
                 approveReturned, rejectedOk>>

walletAction(op) ==
  IF op \in {"createWallet", "ensureDefaultWallet"} THEN "wallet_created"
  ELSE "wallet_imported"

\* service.ts:172-173, 188-189: the audit entry, then return meta
wallet_audit(c) ==
  /\ calls[c].pc = "wl_audit"
  /\ audit' = Append(audit, [action |-> walletAction(calls[c].op),
                             txId |-> NoTx, walletId |-> calls[c].meta.walletId,
                             chainId |-> config.defaultChainId])
  /\ calls' = [calls EXCEPT ![c] = Return(c, "meta")]
  /\ UNCHANGED <<limits, config, walletState, pendingFile, dailyFile, now, ticks,
                 nextTx, started, broadcasts, sentLog, faults,
                 approveReturned, rejectedOk>>

\* service.ts:148-149: setDefaultWallet suspends at `await stateStore.load()`
setDefaultWallet(walletId) ==
  /\ CanStart
  /\ calls' = [calls EXCEPT ![FreeSlot] =
       [IdleCall EXCEPT !.op = "setDefaultWallet", !.pc = "sd_state",
                        !.walletId = walletId, !.state = walletState]]
  /\ started' = started + 1
  /\ Untouched

\* service.ts:150-153: an unregistered id throws; else the loaded state with
\* the new default is written back as a whole
setDefaultWallet_save(c) ==
  /\ calls[c].pc = "sd_state"
  /\ IF ~walletKnown(calls[c].state, calls[c].walletId)
       THEN /\ calls' = [calls EXCEPT ![c] = Throw(c, "Wallet not found")]
            /\ UNCHANGED walletState
       ELSE /\ walletState' = [calls[c].state EXCEPT
                                 !.defaultWalletId = calls[c].walletId]
            /\ calls' = [calls EXCEPT ![c] =
                 [@ EXCEPT !.pc = "sd_audit", !.state = NoState, !.wrote = TRUE,
                           !.meta = calls[c].state.wallets[calls[c].walletId]]]
  /\ UNCHANGED <<limits, config, pendingFile, dailyFile, audit, now, ticks,
                 nextTx, started, broadcasts, sentLog, faults,
                 approveReturned, rejectedOk>>

\* service.ts:154-155: the audit entry, then return meta
setDefaultWallet_audit(c) ==
  /\ calls[c].pc = "sd_audit"
  /\ audit' = Append(audit, [action |-> "wallet_default_set", txId |-> NoTx,
                             walletId |-> calls[c].meta.walletId,
                             chainId |-> NoChain])
  /\ calls' = [calls EXCEPT ![c] = Return(c, "meta")]
  /\ UNCHANGED <<limits, config, walletState, pendingFile, dailyFile, now, ticks,
                 nextTx, started, broadcasts, sentLog, faults,
                 approveReturned, rejectedOk>>

\* service.ts:205-206: ensureDefaultWallet suspends at `await stateStore.load()`
ensureDefaultWallet ==
  /\ CanStart
  /\ calls' = [calls EXCEPT ![FreeSlot] =
       [IdleCall EXCEPT !.op = "ensureDefaultWallet", !.pc = "ed_state",
                        !.state = walletState]]
  /\ started' = started + 1
  /\ Untouched

\* service.ts:207-210: a registered default is returned; otherwise
\* createWallet() is called: a key is generated and stored, and the call
\* suspends at createWallet's own `await stateStore.load()`
ensureDefaultWallet_check(c) ==
  /\ calls[c].pc = "ed_state"
  /\ LET st == calls[c].state IN
     IF walletKnown(st, st.defaultWalletId)
       THEN calls' = [calls EXCEPT ![c] =
              [Return(c, "meta") EXCEPT !.meta = st.wallets[st.defaultWalletId]]]
       ELSE \E key \in Keys, stored \in BOOLEAN :
              /\ privateKeyToAddress(key) \notin TakenWalletIds
              /\ calls' = [calls EXCEPT ![c] =
                   walletCall([calls[c] EXCEPT !.state = NoState], key, stored)]
  /\ Untouched /\ UNCHANGED started

\* positions suspended at a write of state.json or of the audit log
RegistryWritePcs == {"wl_save", "wl_audit", "sd_state", "sd_audit"}

\* fs.writeFile / fs.appendFile rejects (state-store.ts:33-36, audit
\* append): the operation throws
registryWriteFails(c) ==
  /\ faults < MaxFaults
  /\ calls[c].pc \in RegistryWritePcs
  /\ calls[c].pc = "sd_state" => walletKnown(calls[c].state, calls[c].walletId)
  /\ faults' = faults + 1
  /\ calls' = [calls EXCEPT ![c] = Throw(c, "write failed")]
  /\ UNCHANGED <<limits, config, walletState, pendingFile, dailyFile, audit, now,
                 ticks, nextTx, started, broadcasts, sentLog,
                 approveReturned, rejectedOk>>

(* ------------------------------- clock -------------------------------- *)
\* positions whose next step reads Date.now() (createdAt, age, today)
ClockPcs == {"rq_state", "rq_daily", "ap_get", "ap_sent_save", "ap_sent_saved"}

\* Time passes.  Only a step that reads the clock can tell when it passed,
\* so the clock advances just before such a step.
Tick ==
  /\ ticks < MaxTicks
  /\ \E c \in ActiveCalls : calls[c].pc \in ClockPcs
  /\ \E d \in {PENDING_TX_TTL_MS, PENDING_TX_TTL_MS + 1} : now' = now + d
  /\ ticks' = ticks + 1
  /\ UNCHANGED <<limits, config, walletState, pendingFile, dailyFile, audit, nextTx,
                 calls, started, broadcasts, sentLog, faults,
                 approveReturned, rejectedOk>>

(* --------------------------- failing writes --------------------------- *)
\* positions suspended at a file write inside approveTx's try block
\* (service.ts:537-551): a rejected write lands in the catch block
TryWritePcs == {"ap_sent_save", "ap_spend_save", "ap_spent"}
\* positions suspended at a file write outside any try block
BareWritePcs == {"rq_add", "rq_audit", "ap_exp_save", "ap_exp_audit",
                 "ap_mark_save", "ap_nokey_save", "ap_fail_save",
                 "ap_fail_audit", "rj_save", "rj_audit"}

\* fs.writeFile / fs.appendFile rejects (pending-store.ts:34-37, daily-spend
\* save, audit append).  Inside the try block the catch (service.ts:553-555)
\* takes the message and calls update(failed), whose load() reads
\* pending.json; anywhere else the operation throws.
writeFails(c) ==
  /\ faults < MaxFaults
  /\ faults' = faults + 1
  /\ \/ /\ \/ calls[c].pc \in TryWritePcs
           \/ calls[c].pc = "ap_sent_saved" /\ limits.dailyLimit = NoLimit
        /\ calls' = [calls EXCEPT ![c] =
             [@ EXCEPT !.pc = "ap_fail_save", !.error = "write failed",
                       !.rec = NoDaily, !.items = pendingFile]]
     \/ /\ calls[c].pc \in BareWritePcs
        /\ calls' = [calls EXCEPT ![c] =
             [Throw(c, "write failed") EXCEPT !.items = EmptyItems]]
  /\ UNCHANGED <<limits, config, walletState, pendingFile, dailyFile, audit, now,
                 ticks, nextTx, started, broadcasts, sentLog,
                 approveReturned, rejectedOk>>

(* ------------------------------- Next --------------------------------- *)
Values == 0..MaxValue
WalletParams == {NoWallet, W1, W2}
Targets == KnownTxIds \cup {UnknownTx}

Start ==
  \/ \E v \in Values, w \in WalletParams : requestSend(toString(v), w, NoChain, Addr1)
  \/ \E w \in WalletParams :
       requestErc20Approve(toString(1), w, NoChain, Addr1)
  \/ \E v \in {0, 1}, w \in WalletParams :
       requestErc20Transfer(toString(v), w, NoChain, Addr1)
  \/ \E v \in Values, w \in WalletParams :
       requestContractCall(toString(v), w, NoChain, Addr1)
  \/ \E t \in Targets : approveTx(t)
  \/ \E t \in Targets : rejectTx(t)
  \/ \E t \in Targets : getPendingTx(t)
  \/ listPending

\* a request operation resumes
StepRequest ==
  \/ \E c \in Procs : requestValidate(c)
  \/ \E c \in Procs : requestDaily(c)
  \/ \E c \in Procs : requestAdd(c)
  \/ \E c \in Procs : requestAudit(c)

\* approveTx resumes on a record that has not expired
StepApprove ==
  \/ \E c \in Procs : approveTx_check(c)
  \/ \E c \in Procs : approveTx_recheck(c)
  \/ \E c \in Procs : approveTx_markSave(c)
  \/ \E c \in Procs : approveTx_noKey(c)
  \/ \E c \in Procs : approveTx_noKeySave(c)
  \/ \E c \in Procs : approveTx_signFails(c)
  \/ \E c \in Procs : approveTx_broadcast(c)
  \/ \E c \in Procs : approveTx_sentLoad(c)
  \/ \E c \in Procs : approveTx_sentSave(c)
  \/ \E c \in Procs : approveTx_spendLoad(c)
  \/ \E c \in Procs : approveTx_spendSave(c)
  \/ \E c \in Procs : approveTx_sentAudit(c)
  \/ \E c \in Procs : approveTx_failSave(c)
  \/ \E c \in Procs : approveTx_failAudit(c)

\* time passes, and approveTx resumes on a record that has expired
StepExpire ==
  \/ Tick
  \/ \E c \in Procs : approveTx_expSave(c)
  \/ \E c \in Procs : approveTx_expAudit(c)

\* rejectTx resumes
StepReject ==
  \/ \E c \in Procs : rejectTx_check(c)
  \/ \E c \in Procs : rejectTx_save(c)
  \/ \E c \in Procs : rejectTx_audit(c)

\* an operation resumes after an await
Step == StepRequest \/ StepApprove \/ StepExpire \/ StepReject

\* any interleaving of the operations at their awaits
Next == Start \/ Step
Spec == Init /\ [][Next]_vars

\* serialized operation: a call starts only when no other is in flight
NextSerial == (ActiveCalls = {} /\ Start) \/ Step
SpecSerial == (Init \/ InitLoaded) /\ [][NextSerial]_vars

\* serialized operation in which file writes may fail
NextFaults == NextSerial \/ \E c \in Procs : writeFails(c)
SpecFaults == (Init \/ InitLoaded) /\ [][NextFaults]_vars

\* sends, approvals and rejections racing over a store that holds a record
StartRace ==
  \/ requestSend(toString(1), NoWallet, NoChain, Addr1)
  \/ \E t \in KnownTxIds : approveTx(t)
  \/ \E t \in KnownTxIds : rejectTx(t)
NextRace == StartRace \/ Step
SpecRace == InitLoaded /\ [][NextRace]_vars

\* serialized requests over every chain and target, approvals and
\* rejections, under the policy configurations
ChainParams == {NoChain, OtherChain, BlankChain, MissingChain}
AddrParams == {<<" ", "A", "b", "*">>, <<"b", "b">>, <<"a", "B">>}
StartPolicy ==
  \/ \E ch \in ChainParams, a \in AddrParams : requestSend(toString(1), NoWallet, ch, a)
  \/ \E ch \in ChainParams, a \in AddrParams :
       requestErc20Approve(toString(1), NoWallet, ch, a)
  \/ \E ch \in ChainParams, a \in AddrParams :
       requestErc20Transfer(toString(1), NoWallet, ch, a)
  \/ \E ch \in ChainParams, a \in AddrParams :
       requestContractCall(toString(1), NoWallet, ch, a)
  \/ \E t \in KnownTxIds : approveTx(t)
NextPolicy ==
  \/ ActiveCalls = {} /\ StartPolicy
  \/ StepRequest
  \/ StepApprove
  \/ StepExpire
  \/ \E c \in Procs : approveTx_noRpc(c)
SpecPolicy == InitPolicy /\ [][NextPolicy]_vars

\* serialized operation, with queries made at any moment of it
Filters == [walletId : {NoWallet}, chainId : {NoChain},
            action : {AnyAction, "send_requested", "send_approved"},
            limit : {1, NoNumber}]
StartQuery ==
  \/ \E t \in Targets : getPendingTx(t)
  \/ listPending
  \/ \E filter \in Filters : queryHistory(filter)
NextQuery == NextSerial \/ StartQuery
SpecQuery == (Init \/ InitLoaded) /\ [][NextQuery]_vars

\* serialized requests with every spelling of the amount
AmountStrings == {<<"1">>, <<"0">>, <<" ", "2", " ">>, <<"-", "1">>,
                  <<"1", ".", "5">>, <<"-">>, <<>>, <<" ">>}
StartAmount ==
  \/ \E a \in AmountStrings : requestSend(a, NoWallet, NoChain, Addr1)
  \/ \E a \in AmountStrings : requestErc20Approve(a, NoWallet, NoChain, Addr1)
  \/ \E a \in AmountStrings : requestErc20Transfer(a, NoWallet, NoChain, Addr1)
  \/ \E a \in AmountStrings : requestContractCall(a, NoWallet, NoChain, Addr1)
NextAmount == (ActiveCalls = {} /\ StartAmount) \/ StepRequest
SpecAmount == Init /\ [][NextAmount]_vars

\* serialized ERC-20 requests over amounts in and out of the uint256 range
\* and over spellings of the token and of the spender or recipient
CalldataAmounts == {<<"0">>, <<"1">>, <<"2", "5">>, <<"2", "5", "5">>,
                    <<"2", "0", "1", "5">>, <<"1", "0", "0", "0", "0", "0", "0">>,
                    <<"-", "1">>}
StartCalldata ==
  \E op \in Erc20Ops, a \in CalldataAmounts, token \in AddrParams,
     spender \in AddrParams :
    requestStartFor(op, a, NoWallet, NoChain, token, spender)
NextCalldata ==
  \/ ActiveCalls = {} /\ StartCalldata
  \/ \E c \in Procs : requestValidate(c)
  \/ \E c \in Procs : requestAdd(c)
  \/ \E c \in Procs : requestAudit(c)
SpecCalldata == Init /\ [][NextCalldata]_vars

\* serialized sends and approvals in which every suspended call is
\* eventually resumed: the event loop runs the continuation of an await once
\* its store or RPC call has returned or failed, and each does
StartLive ==
  \/ \E ch \in {NoChain, BlankChain} :
       requestSend(toString(1), NoWallet, ch, Addr1)
  \/ \E t \in KnownTxIds : approveTx(t)
Resume(c) ==
  \/ requestValidate(c)
  \/ requestDaily(c)
  \/ requestAdd(c)
  \/ requestAudit(c)
  \/ approveTx_check(c)
  \/ approveTx_recheck(c)
  \/ approveTx_markSave(c)
  \/ approveTx_noKey(c)
  \/ approveTx_noKeySave(c)
  \/ approveTx_noRpc(c)
  \/ approveTx_signFails(c)
  \/ approveTx_broadcast(c)
  \/ approveTx_sentLoad(c)
  \/ approveTx_sentSave(c)
  \/ approveTx_spendLoad(c)
  \/ approveTx_spendSave(c)
  \/ approveTx_sentAudit(c)
  \/ approveTx_failSave(c)
  \/ approveTx_failAudit(c)
NextLive ==
  \/ ActiveCalls = {} /\ StartLive
  \/ \E c \in Procs : Resume(c)
FairLive == \A c \in Procs : WF_vars(Resume(c))
SpecLive == Init /\ [][NextLive]_vars /\ FairLive

\* the builder called with and without overrides, against a node that
\* answers or fails each request
NonceParams == {NoNumber, 0, 7}
GasLimitParams == {NoNumber, 50000}
Counts == {0, 3}
GasEstimates == {21000, 60000}
FeeEstimates == {0, 1, 4, 5, 99, 1000}
StartBuilder ==
  \E v \in {0, 1}, nonce \in NonceParams, gasLimit \in GasLimitParams :
    buildAndSignTx(v, nonce, gasLimit)
StepBuilder ==
  \/ \E c \in Procs : buildAndSignTx_rpcFails(c)
  \/ \E c \in Procs, count \in Counts : buildAndSignTx_count(c, count)
  \/ \E c \in Procs, estimate \in GasEstimates : buildAndSignTx_gas(c, estimate)
  \/ \E c \in Procs, fee \in FeeEstimates, tip \in FeeEstimates :
       buildAndSignTx_fees(c, fee, tip)
  \/ \E c \in Procs : buildAndSignTx_noFees(c)
  \/ \E c \in Procs, price \in FeeEstimates : buildAndSignTx_price(c, price)
NextBuilder == (ActiveCalls = {} /\ StartBuilder) \/ StepBuilder
SpecBuilder == Init /\ [][NextBuilder]_vars

(* ----------------------- per-peer state directory --------------------- *)
\* Texts are sequences of characters; a session key is the sequence of its
\* parts between colons, a directory the sequence of its path segments.
DefaultPeer == <<"d", "e", "f", "a", "u", "l", "t">>
\* plugin.ts:26-31 extractPeerId: the part after "dm", or "default"
extractPeerId(sessionKey) ==
  LET dms == {i \in 1..Len(sessionKey) : sessionKey[i] = <<"d", "m">>}
      dmIdx == CHOOSE i \in dms : \A j \in dms : i <= j
  IN IF dms # {} /\ dmIdx < Len(sessionKey) /\ sessionKey[dmIdx + 1] # <<>>
       THEN sessionKey[dmIdx + 1]
     ELSE DefaultPeer
\* config-adapter.ts:87 the characters of [0-9a-zA-Z_-]
PeerSafeChars ==
  {"0", "1", "2", "3", "4", "5", "6", "7", "8", "9", "_", "-",
   "a", "b", "c", "d", "e", "f", "g", "h", "i", "j", "k", "l", "m",
   "n", "o", "p", "q", "r", "s", "t", "u", "v", "w", "x", "y", "z",
   "A", "B", "C", "D", "E", "F", "G", "H", "I", "J", "K", "L", "M",
   "N", "O", "P", "Q", "R", "S", "T", "U", "V", "W", "X", "Y", "Z"}
\* config-adapter.ts:87 peerId.replace(/[^0-9a-zA-Z_-]/g, "_").trim() || "default"
safePeer(peerId) ==
  LET replaced == [i \in 1..Len(peerId) |->
                     IF peerId[i] \in PeerSafeChars THEN peerId[i] ELSE "_"]
  IN IF trim(replaced) = <<>> THEN DefaultPeer ELSE trim(replaced)
\* config-adapter.ts:81-89 resolveStateDirForPeer: <base>/users/<safe>
resolveStateDirForPeer(peerId) == <<"base", "users", safePeer(peerId)>>

\* plugin.ts:383-417 getServiceForContext: the service of the peer of a
\* session key, created on its state directory
getServiceForContext(sessionKey) ==
  /\ CanStart
  /\ calls' = [calls EXCEPT ![FreeSlot] =
       [IdleCall EXCEPT !.op = "getServiceForContext", !.pc = "returned",
                        !.result = "service",
                        !.arg = extractPeerId(sessionKey),
                        !.command = resolveStateDirForPeer(extractPeerId(sessionKey))]]
  /\ started' = started + 1
  /\ Untouched

MaxPeerLen == 2
PeerChars == {"1", "a", "A", ".", "_", "-", "+", " "}
PeerIds ==
  {DefaultPeer} \cup UNION {[1..n -> PeerChars] : n \in 0..MaxPeerLen}
SessionKeys ==
  {<<>>, <<<<"a">>, <<"d", "m">>>>, <<<<"a">>, <<"1">>>>}
    \cup {<<<<"a">>, <<"d", "m">>, p>> : p \in PeerIds}
NextPeers == \E sessionKey \in SessionKeys : getServiceForContext(sessionKey)
SpecPeers == Init /\ [][NextPeers]_vars

(* ------------------------ the custody adapters ------------------------ *)
\* The KeychainAdapter of the macOS keychain (part_007:89-126) and of the
\* encrypted key files (part_004:95-163), called directly.  Their functions
\* are synchronous (execSync, fs.*Sync): one step each.  Texts are
\* sequences of characters; an address has AddrChars hex digits after 0x,
\* a private key KeyChars.
KeyChars == 3
HexDigits == {"0", "1", "2", "3", "4", "5", "6", "7", "8", "9",
              "a", "b", "c", "d", "e", "f", "A", "B", "C", "D", "E", "F"}
hexRun(s, n) == Len(s) = n /\ \A i \in 1..n : s[i] \in HexDigits
has0x(s) == Len(s) >= 2 /\ s[1] = "0" /\ s[2] = "x"
\* part_007:15, part_004:16  SAFE_ADDRESS_RE = /^0x[0-9a-fA-F]{40}$/
SAFE_ADDRESS_RE(s) == has0x(s) /\ hexRun(SubSeq(s, 3, Len(s)), AddrChars)
\* part_007:17, part_004:17  SAFE_PRIVKEY_RE = /^0x[0-9a-fA-F]{64}$/
SAFE_PRIVKEY_RE(s) == has0x(s) /\ hexRun(SubSeq(s, 3, Len(s)), KeyChars)
\* part_007:23-28 assertSafeShellParam does not throw: /^[0-9a-fA-Fx:]+$/
safeShellParam(s) ==
  s # <<>> /\ \A i \in 1..Len(s) : s[i] \in HexDigits \cup {"x", ":"}
\* the test a walletId passes before it is used: keychainAccount
\* (part_007:42-45) on macOS, safeWalletIdFilename (part_004:50-55) for files
walletIdAccepted(backend, walletId) ==
  IF backend = "darwin" THEN safeShellParam(walletId)
  ELSE SAFE_ADDRESS_RE(walletId)
\* part_007:44 the keychain account; part_004:54 the file name
lookupName(backend, walletId) ==
  IF backend = "darwin" THEN <<"wallet:">> \o walletId
  ELSE toLowerCase(SubSeq(walletId, IF has0x(walletId) THEN 3 ELSE 1,
                          Len(walletId))) \o <<".json">>
\* part_007:105, part_004:121  privateKeyHex.replace(/^0x/, "").toLowerCase()
normalizeKey(privateKeyHex) ==
  toLowerCase(IF has0x(privateKeyHex)
                THEN SubSeq(privateKeyHex, 3, Len(privateKeyHex))
                ELSE privateKeyHex)
\* tx-builder.ts:27-31 privateKeyToAddress of a key text: some 0x address
addressOfKey(key) == <<"0", "x">> \o SubSeq(key, 3, 2 + AddrChars)

\* getPrivateKey(walletId) and deleteWallet(walletId): part_007:117-124,
\* part_004:139-161; `found` is whether the item or file exists
keychainLookup(op, backend, walletId, found) ==
  /\ CanStart
  /\ calls' = [calls EXCEPT ![FreeSlot] =
       LET call == [IdleCall EXCEPT !.op = op, !.backend = backend,
                                    !.arg = walletId]
       IN IF ~walletIdAccepted(backend, walletId)
            THEN [call EXCEPT !.pc = "thrown", !.result = "thrown",
                              !.error = IF backend = "darwin"
                                          THEN "walletId contains unsafe characters"
                                        ELSE "Invalid walletId for keychain file"]
          ELSE [call EXCEPT !.pc = "returned",
                            !.command = lookupName(backend, walletId),
                            !.result =
                              IF op = "getPrivateKey"
                                THEN (IF found THEN "key" ELSE "null")
                              ELSE IF found \/ backend # "darwin" THEN "true"
                              ELSE "false"]]
  /\ started' = started + 1
  /\ Untouched
getPrivateKey_adapter(backend, walletId, found) ==
  keychainLookup("getPrivateKey", backend, walletId, found)
deleteWallet_adapter(backend, walletId, found) ==
  keychainLookup("deleteWallet", backend, walletId, found)

\* createWallet() with the generated key `key` (part_007:92-103,
\* part_004:102-118) and importWallet(privateKeyHex) (part_007:104-116,
\* part_004:120-137)
keychainStore(op, backend, privateKeyHex) ==
  /\ CanStart
  /\ calls' = [calls EXCEPT ![FreeSlot] =
       LET call == [IdleCall EXCEPT !.op = op, !.backend = backend,
                                    !.arg = privateKeyHex]
           key == IF op = "importWallet"
                    THEN <<"0", "x">> \o normalizeKey(privateKeyHex)
                  ELSE privateKeyHex
           walletId == addressOfKey(key)
       IN IF op = "importWallet" /\ ~hexRun(normalizeKey(privateKeyHex), KeyChars)
            THEN [call EXCEPT !.pc = "thrown", !.result = "thrown",
                              !.error = "Invalid private key"]
          ELSE IF op = "createWallet" /\ ~SAFE_PRIVKEY_RE(key)
            THEN [call EXCEPT !.pc = "thrown", !.result = "thrown",
                              !.error = "Generated key failed safety check"]
          ELSE IF ~SAFE_ADDRESS_RE(walletId)
            THEN [call EXCEPT !.pc = "thrown", !.result = "thrown",
                              !.error = "Derived address failed safety check"]
          ELSE [call EXCEPT !.pc = "returned", !.result = "walletId",
                            !.to = walletId, !.amount = key,
                            !.command = lookupName(backend, walletId)]]
  /\ started' = started + 1
  /\ Untouched
createWallet_adapter(backend, key) == keychainStore("createWallet", backend, key)
importWallet_adapter(backend, privateKeyHex) ==
  keychainStore("importWallet", backend, privateKeyHex)

Backends == {"darwin", "file"}
WalletIdTexts ==
  {<<"0", "x", "a", "B">>, <<"0", "x", "a">>, <<"a", "b">>, <<"x", ":">>,
   <<"0", "x", "a", "'">>, <<".", ".", "/", "k">>, <<"0", "x", "a", "b", "c">>,
   <<>>}
GeneratedKeys == {<<"0", "x", "a", "b", "1">>, <<"0", "x", "0", "f", "e">>}
ImportedKeys ==
  GeneratedKeys \cup {<<"A", "B", "1">>, <<"0", "x", "a", "b">>,
                      <<"0", "x", "a", "'", "1">>, <<"k", "e", "y">>}
NextAdapter ==
  \/ \E b \in Backends, w \in WalletIdTexts, found \in BOOLEAN :
       getPrivateKey_adapter(b, w, found)
  \/ \E b \in Backends, w \in WalletIdTexts, found \in BOOLEAN :
       deleteWallet_adapter(b, w, found)
  \/ \E b \in Backends, key \in GeneratedKeys : createWallet_adapter(b, key)
  \/ \E b \in Backends, key \in ImportedKeys : importWallet_adapter(b, key)
SpecAdapter == Init /\ [][NextAdapter]_vars

\* serialized sends by two wallets on two chains, rejections and history
\* queries, over a log that is empty or holds the entries of earlier
\* setDefaultWallet calls
TwoWallets == [OneWallet EXCEPT !.wallets[W2] = newMeta(W2, 0)]
StoredEntries == {0, DEFAULT_LIMIT - 1}
InitHistory ==
  /\ limits \in LimitConfigs /\ config = OpenConfig /\ walletState = TwoWallets
  /\ nextTx = 0 /\ pendingFile = [t \in TxIds |-> NoRec]
  /\ \E n \in StoredEntries :
       audit = [i \in 1..n |-> [action |-> "wallet_default_set", txId |-> NoTx,
                                walletId |-> W1, chainId |-> NoChain]]
  /\ dailyFile = NoDaily
  /\ now = StartTime /\ ticks = 0
  /\ calls = [c \in Procs |-> IdleCall] /\ started = 0
  /\ broadcasts = {} /\ approveReturned = {} /\ rejectedOk = {}
  /\ sentLog = {} /\ faults = 0
HistoryFilters ==
  [walletId : {NoWallet, W2}, chainId : {NoChain, OtherChain},
   action : {AnyAction, "send_requested"}, limit : {NoNumber, 0, 1}]
StartHistory ==
  \/ \E w \in {NoWallet, W2}, ch \in {NoChain, OtherChain} :
       requestSend(toString(1), w, ch, Addr1)
  \/ \E t \in KnownTxIds : rejectTx(t)
  \/ \E filter \in HistoryFilters : queryHistory(filter)
NextHistory ==
  \/ ActiveCalls = {} /\ StartHistory
  \/ StepRequest
  \/ StepReject
SpecHistory == InitHistory /\ [][NextHistory]_vars

(* ----------------------- the daily-spend store ------------------------ *)
\* token-balances.ts:112-150 createDailySpendStore called directly; calls
\* overlap at their awaits, as they do when two approveTx calls are in
\* flight.  daily-spend.json holds totalWei as the decimal string
\* total.toString() (147), read back with BigInt (138, 146).
Digits10 == <<"0", "1", "2", "3", "4", "5", "6", "7", "8", "9">>
RECURSIVE totalToString(_)
totalToString(n) ==
  IF n < 0 THEN <<"-">> \o totalToString(0 - n)
  ELSE IF n < 10 THEN <<Digits10[n + 1]>>
  ELSE totalToString(n \div 10) \o <<Digits10[(n % 10) + 1]>>
RECURSIVE totalFromString(_)
totalFromString(str) ==
  IF str = <<>> THEN 0
  ELSE IF Head(str) = "-" THEN 0 - totalFromString(Tail(str))
  ELSE totalFromString(SubSeq(str, 1, Len(str) - 1)) * 10
         + (CHOOSE d \in 0..9 : Digits10[d + 1] = str[Len(str)])
\* load(): the stored record, or {date: "", totalWei: "0"} without a file
NoDailyFile == [date |-> NoDate, totalWei |-> <<"0">>]
loadDaily(file) == [date |-> file.date, totalWei |-> totalFromString(file.totalWei)]
\* the record as addSpend hands it to save()
dailyRecord(rec) == [date |-> rec.date, totalWei |-> totalToString(rec.totalWei)]

\* addSpend(date, valueWei) is called; its load() completes
dailySpend_addSpend(date, valueWei) ==
  /\ CanStart
  /\ calls' = [calls EXCEPT ![FreeSlot] =
       [IdleCall EXCEPT !.op = "addSpend", !.pc = "ds_save",
                        !.valueWei = valueWei,
                        !.rec = addSpend(loadDaily(dailyFile), date, valueWei)]]
  /\ started' = started + 1
  /\ Untouched
\* addSpend: save() completes
dailySpend_save(c) ==
  /\ calls[c].pc = "ds_save"
  /\ dailyFile' = dailyRecord(calls[c].rec)
  /\ calls' = [calls EXCEPT ![c] = [Return(c, "void") EXCEPT !.rec = calls[c].rec]]
  /\ UNCHANGED <<limits, config, walletState, pendingFile, audit, now, ticks, nextTx,
                 started, broadcasts, sentLog, faults,
                 approveReturned, rejectedOk>>
\* getTotalForDate(date) is called; its load() completes
dailySpend_getTotalForDate(date) ==
  /\ CanStart
  /\ calls' = [calls EXCEPT ![FreeSlot] =
       [IdleCall EXCEPT !.op = "getTotalForDate", !.pc = "ds_total",
                        !.rec = [date |-> date, totalWei |-> 0],
                        !.spent = getTotalForDate(loadDaily(dailyFile), date)]]
  /\ started' = started + 1
  /\ Untouched
\* getTotalForDate returns
dailySpend_total(c) ==
  /\ calls[c].pc = "ds_total"
  /\ calls' = [calls EXCEPT ![c] =
       [Return(c, "total") EXCEPT !.rec = calls[c].rec, !.spent = calls[c].spent]]
  /\ Untouched /\ UNCHANGED started

SpendDates == {0, 1}
SpendValues == {0, 1, 5, 9}
InitLedger ==
  /\ limits \in LimitConfigs /\ config = OpenConfig /\ walletState = OneWallet
  /\ nextTx = 0 /\ pendingFile = [t \in TxIds |-> NoRec] /\ audit = <<>>
  /\ dailyFile = NoDailyFile
  /\ now = StartTime /\ ticks = 0
  /\ calls = [c \in Procs |-> IdleCall] /\ started = 0
  /\ broadcasts = {} /\ approveReturned = {} /\ rejectedOk = {}
  /\ sentLog = {} /\ faults = 0
StartLedger ==
  \/ \E d \in SpendDates, v \in SpendValues : dailySpend_addSpend(d, v)
  \/ \E d \in SpendDates : dailySpend_getTotalForDate(d)
StepLedger ==
  \/ \E c \in Procs : dailySpend_save(c)
  \/ \E c \in Procs : dailySpend_total(c)
NextLedger == StartLedger \/ StepLedger
SpecLedger == InitLedger /\ [][NextLedger]_vars
\* each call awaited before the next is made
NextLedgerSerial == (ActiveCalls = {} /\ StartLedger) \/ StepLedger
SpecLedgerSerial == InitLedger /\ [][NextLedgerSerial]_vars

\* serialized requests and approvals under limits that list the allowed
\* chains and recipients, the recipient spelled as a configuration file may
\* spell it
RecipientLists == {{}, {<<" ", "A", "B", " ">>}}
ChainLists == {{}, {DefaultChain}}
InitRecipients ==
  /\ InitState(0)
  /\ config = OpenConfig
  /\ \E rs \in RecipientLists, cs \in ChainLists :
       limits = [mode |-> "notify", limitPerTx |-> CfgLimitPerTx,
                 dailyLimit |-> CfgDailyLimit,
                 allowedChains |-> cs, allowedRecipients |-> rs]
RecipientParams == {Addr1, <<"b", "b">>}
StartRecipients ==
  \/ \E op \in {"requestSend", "requestContractCall"},
        v \in {1, 2}, ch \in {NoChain, OtherChain},
        a \in RecipientParams :
       requestStartFor(op, toString(v), NoWallet, ch, a, <<>>)
  \/ \E op \in Erc20Ops, ch \in {NoChain, OtherChain},
        token \in RecipientParams, a \in RecipientParams :
       requestStartFor(op, toString(1), NoWallet, ch, token, a)
  \/ \E t \in KnownTxIds : approveTx(t)
NextRecipients ==
  \/ ActiveCalls = {} /\ StartRecipients
  \/ StepRequest
  \/ StepApprove
SpecRecipients == InitRecipients /\ [][NextRecipients]_vars

\* serialized operation under either spending mode
Modes == {"notify", "auto"}
InitMode ==
  /\ limits \in {[lim EXCEPT !.mode = m] : lim \in LimitConfigs, m \in Modes}
  /\ config = OpenConfig
  /\ InitState(0)
NextMode == (ActiveCalls = {} /\ Start) \/ Step
SpecMode == InitMode /\ [][NextMode]_vars

\* process.platform of a macOS host and of any other
Platforms == {"darwin", "linux"}

\* serialized wallet creations, requests and approvals on either kind of
\* platform, over a registry that is empty or holds a wallet
InitCustody ==
  /\ limits \in LimitConfigs
  /\ config \in {[OpenConfig EXCEPT !.platform = pf] : pf \in Platforms}
  /\ walletState \in {NoState, OneWallet}
  /\ InitStores(0)
StartCustody ==
  \/ \E key \in Keys, stored \in BOOLEAN : createWallet(key, stored)
  \/ \E key \in Keys \cup {BadKey}, stored \in BOOLEAN :
       importWallet(key, stored)
  \/ \E m \in {M1, BadMnemonic}, stored \in BOOLEAN :
       recoverFromMnemonic(m, stored)
  \/ ensureDefaultWallet
  \/ \E v \in {0, 1} : requestSend(toString(v), NoWallet, NoChain, Addr1)
  \/ \E t \in Targets : approveTx(t)
StepCustody ==
  \/ \E c \in Procs : wallet_save(c)
  \/ \E c \in Procs : wallet_audit(c)
  \/ \E c \in Procs : ensureDefaultWallet_check(c)
  \/ StepRequest
  \/ StepApprove
NextCustody == (ActiveCalls = {} /\ StartCustody) \/ StepCustody
SpecCustody == InitCustody /\ [][NextCustody]_vars

\* selections interleaving over state.json, on either kind of platform,
\* with failing keychain commands and failing file writes
InitRegistry ==
  /\ limits \in {lim \in LimitConfigs : lim.dailyLimit = NoLimit}
  /\ config \in {[OpenConfig EXCEPT !.platform = pf] : pf \in Platforms}
  /\ walletState \in {NoState, OneWallet}
  /\ InitStores(0)
StartRegistry ==
  \/ \E key \in Keys, stored \in BOOLEAN : createWallet(key, stored)
  \/ \E key \in Keys \cup {BadKey}, stored \in BOOLEAN :
       importWallet(key, stored)
  \/ \E m \in {M1, BadMnemonic}, stored \in BOOLEAN :
       recoverFromMnemonic(m, stored)
  \/ \E w \in WalletIds : setDefaultWallet(w)
  \/ ensureDefaultWallet
StepRegistry ==
  \/ \E c \in Procs : wallet_save(c)
  \/ \E c \in Procs : wallet_audit(c)
  \/ \E c \in Procs : setDefaultWallet_save(c)
  \/ \E c \in Procs : setDefaultWallet_audit(c)
  \/ \E c \in Procs : ensureDefaultWallet_check(c)
NextRegistry ==
  \/ StartRegistry
  \/ StepRegistry
  \/ \E c \in Procs : registryWriteFails(c)
SpecRegistry == InitRegistry /\ [][NextRegistry]_vars
\* the same calls, each awaited before the next is made
NextRegistrySerial == (ActiveCalls = {} /\ StartRegistry) \/ StepRegistry
SpecRegistrySerial == InitRegistry /\ [][NextRegistrySerial]_vars

\* ensureDefaultWallet called any number of times, the calls interleaving at
\* their awaits, on a macOS host whose registry starts empty
InitEnsure ==
  /\ limits \in LimitConfigs
  /\ config = OpenConfig
  /\ walletState = NoState
  /\ InitStores(0)
StepEnsure ==
  \/ \E c \in Procs : ensureDefaultWallet_check(c)
  \/ \E c \in Procs : wallet_save(c)
  \/ \E c \in Procs : wallet_audit(c)
NextEnsure == ensureDefaultWallet \/ StepEnsure
SpecEnsure == InitEnsure /\ [][NextEnsure]_vars
\* the same calls, each awaited before the next is made
NextEnsureSerial == (ActiveCalls = {} /\ ensureDefaultWallet) \/ StepEnsure
SpecEnsureSerial == InitEnsure /\ [][NextEnsureSerial]_vars

(* ============================== claims ================================ *)
Statuses(t) == pendingFile[t].status
BroadcastsOf(t) == {b \in broadcasts : b.txId = t}

RECURSIVE SumValues(_)
SumValues(S) ==
  IF S = {} THEN 0
  ELSE LET e == CHOOSE x \in S : TRUE IN e.valueWei + SumValues(S \ {e})

\* C1. Approval gate: every rpc.sendRawTransaction call is made by an
\* approveTx call whose first read of the record returned status 'pending';
\* no request operation, rejectTx or query reads the key or broadcasts.
C1_ApprovalGate ==
  /\ \A b \in broadcasts : b.op = "approveTx" /\ b.first = "pending"
  /\ \A c \in Procs :
       calls[c].op # "approveTx" => ~calls[c].keyRead /\ calls[c].txHash = 0
C1_Witness ==
  /\ broadcasts # {}
  /\ \E c \in Procs : calls[c].op = "approveTx" /\ calls[c].result = "error"
                      /\ calls[c].first = "sent"

\* C2. Sequential double approval: an approveTx(txId) call made after an
\* earlier approveTx(txId) has returned returns an error, does not broadcast
\* and does not change the stored record.
C2_LaterApproveRefused ==
  /\ \A c \in Procs :
       calls[c].op = "approveTx" /\ calls[c].afterApprove =>
         /\ calls[c].pc \in DonePcs => calls[c].result = "error"
         /\ ~calls[c].wrote
         /\ calls[c].txHash = 0
  /\ \A b \in broadcasts : ~b.afterApprove

\* C3. Concurrent double approval: of the approveTx calls on one pending id,
\* however they interleave, at most one reaches sendRawTransaction.
C3_AtMostOneBroadcast ==
  \A t \in TxIds : Cardinality(BroadcastsOf(t)) <= 1

\* C4. Terminal states are final: once the stored status is 'sent', 'failed'
\* or 'rejected', no later step changes it.
C4_TerminalFinal ==
  [][\A t \in TxIds :
       Statuses(t) \in TerminalStatus /\ pendingFile'[t] # NoRec
         => pendingFile'[t].status = Statuses(t)]_vars

\* C5. Monotonic status: a record whose stored status is 'approved', 'sent',
\* 'failed' or 'rejected' never has stored status 'pending' again.
C5_Monotonic ==
  [][\A t \in TxIds :
       Statuses(t) \in TerminalStatus \cup {"approved"}
         => pendingFile'[t].status # "pending"]_vars

\* C6. Reject means not broadcast: a txId for which rejectTx returned
\* {ok: true} is never broadcast, before or after.
C6_RejectedNeverBroadcast ==
  \A t \in rejectedOk : BroadcastsOf(t) = {}

\* C7. Daily cap under serialized operation: for every UTC day, the values
\* of the records that reached 'sent' on that day sum to at most dailyLimit.
C7_DailyCap ==
  limits.dailyLimit # NoLimit =>
    \A e \in sentLog :
      SumValues({x \in sentLog : x.day = e.day}) <= limits.dailyLimit

\* C8. Per-transaction limit: a requestSend or requestContractCall whose
\* valueWei is greater than limitPerTx throws and adds no record; a value
\* equal to limitPerTx is not refused by this check.
C8_LimitPerTx ==
  \A c \in Procs :
    calls[c].op \in {"requestSend", "requestContractCall"}
    /\ limits.limitPerTx # NoLimit =>
      /\ calls[c].valueWei > limits.limitPerTx =>
           /\ calls[c].pc \in {"rq_state", "thrown"}
           /\ calls[c].txId = NoTx
           /\ ~calls[c].wrote
      /\ calls[c].pc = "thrown" /\ calls[c].error = "Value exceeds limitPerTx"
           => calls[c].valueWei > limits.limitPerTx
C8_Witness ==
  /\ \E c \in Procs : /\ calls[c].op \in {"requestSend", "requestContractCall"}
                      /\ calls[c].pc = "thrown"
                      /\ calls[c].error = "Value exceeds limitPerTx"
  /\ \E t \in TxIds : /\ pendingFile[t] # NoRec
                      /\ pendingFile[t].valueWei = limits.limitPerTx

\* C9. Expiration: an approveTx call that finds the record 'pending' and
\* older than the TTL sets the stored status to 'failed', returns an error,
\* never reads the key, never broadcasts, and appends 'send_expired'; such a
\* record never becomes 'sent'.
C9_Expired ==
  /\ \A b \in broadcasts : ~b.expired
  /\ \A c \in Procs : calls[c].expired =>
       /\ ~calls[c].keyRead /\ calls[c].txHash = 0
       /\ calls[c].pc = "returned" =>
            /\ calls[c].result = "error"
            /\ \E i \in 1..Len(audit) :
                 /\ audit[i].action = "send_expired"
                 /\ audit[i].txId = calls[c].txId
       /\ calls[c].pc \in {"ap_exp_audit", "returned"} =>
            Statuses(calls[c].txId) = "failed"
       /\ Statuses(calls[c].txId) # "sent"

\* C10. Reject then approve: rejectTx succeeds only on a record read as
\* 'pending' and sets it to 'rejected', and otherwise changes nothing; after
\* a successful rejectTx every later approveTx returns an error and does not
\* broadcast, and the stored status stays 'rejected'.
C10_RejectThenApprove ==
  /\ \A c \in Procs : calls[c].op = "rejectTx" =>
       /\ calls[c].result = "ok" => calls[c].first = "pending"
       /\ calls[c].result = "notok" => ~calls[c].wrote
  /\ \A t \in rejectedOk : Statuses(t) = "rejected"
  /\ \A c \in Procs :
       calls[c].op = "approveTx" /\ calls[c].afterReject =>
         /\ calls[c].pc \in DonePcs => calls[c].result = "error"
         /\ ~calls[c].wrote
  /\ \A b \in broadcasts : ~b.afterReject

C12_NeverLeftApproved ==
  \A c \in Procs :
    calls[c].op = "approveTx" /\ calls[c].wrote
    /\ calls[c].pc \in {"returned", "thrown"} =>
      /\ Statuses(calls[c].txId) \in {"sent", "failed"}
      /\ Statuses(calls[c].txId) = "failed"
           => pendingFile[calls[c].txId].error # ""
\* C13. Meaning of 'failed': a record whose stored status is 'failed' was
\* never successfully broadcast; a failing store, ledger or audit write after
\* a broadcast does not make the record 'failed'.
C13_FailedNeverBroadcast ==
  \A t \in TxIds : Statuses(t) = "failed" => BroadcastsOf(t) = {}

\* C14. Request-time errors have no side effects: when a request operation
\* ends by throwing, it has written nothing; the record it built, if any, is
\* not in the pending store.
C14_RequestErrorsNoEffect ==
  \A c \in Procs :
    calls[c].op \in RequestOps /\ calls[c].pc = "thrown" =>
      /\ ~calls[c].wrote
      /\ calls[c].txId # NoTx => pendingFile[calls[c].txId] = NoRec

\* C15. Chain allowlist: every pending record's chainId is a key of
\* config.chains and, when allowedChains is non-empty, a member of it,
\* whichever of the four request operations created the record.
C15_ChainAllowlist ==
  \A t \in TxIds : pendingFile[t] # NoRec =>
    /\ chainConfigured(pendingFile[t].chainId, config)
    /\ limits.allowedChains # {} =>
         pendingFile[t].chainId \in limits.allowedChains
\* C16. Verified-contract gate: with interactWithUnverifiedContracts false,
\* every record made by requestErc20Approve, requestErc20Transfer or
\* requestContractCall has a target equal, ignoring case and surrounding
\* whitespace, to a verified token or contract address; a request to any other
\* target throws and creates no record; a request to a verified target is
\* not refused by the gate; with the flag true or unset the gate refuses
\* nothing.
IgnoringCase(s) == toLowerCase(trim(s))
VerifiedTargets ==
  {IgnoringCase(a) :
     a \in config.verifiedTokenAddresses \cup config.verifiedContractAddresses}
GateClosed == config.interactWithUnverifiedContracts = "false"
C16_VerifiedContractGate ==
  /\ GateClosed =>
       \A t \in TxIds : pendingFile[t] # NoRec /\ pendingFile[t].data # NoData =>
         IgnoringCase(pendingFile[t].to) \in VerifiedTargets
  /\ \A c \in Procs : calls[c].op \in GatedOps /\ isValidAddress(calls[c].to) =>
       LET verified == IgnoringCase(validateAddress(calls[c].to))
                         \in VerifiedTargets
       IN /\ calls[c].error = "Not in verified addresses" =>
               /\ GateClosed /\ ~verified
               /\ calls[c].pc = "thrown"
               /\ calls[c].txId = NoTx /\ ~calls[c].wrote
          /\ GateClosed /\ ~verified =>
               calls[c].error = "Not in verified addresses"
C16_Witness ==
  /\ GateClosed
  /\ \E t \in TxIds :
       /\ pendingFile[t] # NoRec /\ pendingFile[t].data # NoData
       /\ pendingFile[t].to \notin
            config.verifiedTokenAddresses \cup config.verifiedContractAddresses
  /\ \E c \in Procs : calls[c].error = "Not in verified addresses"
\* C17. Key access failure: when approveTx cannot read the wallet's private
\* key, the record is stored as 'failed' with a non-empty error, the call
\* returns {error}, nothing is signed or broadcast for it, and the daily
\* spend ledger is left as it was.
KeyFailed(c) ==
  calls[c].op = "approveTx" /\ calls[c].error = "Cannot read wallet key"
C17_KeyAccessFailure ==
  [][\A c \in Procs : KeyFailed(c)' /\ calls'[c] # calls[c] =>
       /\ dailyFile' = dailyFile
       /\ broadcasts' = broadcasts /\ calls'[c].txHash = 0
       /\ calls'[c].pc \in DonePcs =>
            /\ calls'[c].pc = "returned" /\ calls'[c].result = "error"
            /\ pendingFile'[calls[c].txId].status = "failed"
            /\ pendingFile'[calls[c].txId].error # ""]_vars

\* C18. Audit completeness: when an approveTx or rejectTx call has changed
\* the stored status of a record to 'sent', 'failed' or 'rejected' (success,
\* signing or broadcast failure, key-access failure, expiration, rejection)
\* and has returned, the audit log holds an entry for that change carrying
\* the record's txId.
StatusActions ==
  {"send_approved", "send_failed", "send_rejected", "send_expired"}
C18_AuditCompleteness ==
  \A c \in Procs :
    /\ calls[c].op \in {"approveTx", "rejectTx"}
    /\ calls[c].pc = "returned" /\ calls[c].wrote
    /\ Statuses(calls[c].txId) \in {"sent", "failed", "rejected"}
    => \E i \in 1..Len(audit) :
         audit[i].txId = calls[c].txId /\ audit[i].action \in StatusActions

\* C19. Audit writes never gate the action: when audit.append fails, the
\* operation neither throws nor takes its failure path; it goes on to the
\* result it has when the append succeeds (a request still returns its txId,
\* a record that was broadcast stays 'sent').
AtAuditAppend(c) ==
  \/ calls[c].pc \in {"rq_audit", "ap_exp_audit", "ap_spent", "ap_fail_audit",
                      "rj_audit"}
  \/ calls[c].pc = "ap_sent_saved" /\ limits.dailyLimit = NoLimit
C19_AuditNeverGates ==
  [][\A c \in Procs :
       AtAuditAppend(c) /\ faults' = faults + 1 /\ calls'[c] # calls[c] =>
         /\ calls'[c].pc \notin {"thrown", "ap_fail_save"}
         /\ calls'[c].error = calls[c].error]_vars

\* C20. Ledger frame: the daily-spend record changes only in an approveTx
\* call that holds the hash returned by sendRawTransaction; with dailyLimit
\* configured a successful approval reaches that write, and the write
\* increases the stored total of the call's UTC day by exactly the record's
\* valueWei, so that a record with valueWei 0 changes no day's total.
Days == {getTodayUtc(StartTime), getTodayUtc(StartTime) + 1}
SpendWrite(c) == calls[c].pc = "ap_spend_save" /\ calls'[c].pc = "ap_spent"
C20_LedgerFrame ==
  [][/\ dailyFile' # dailyFile =>
          \E c \in Procs : /\ calls[c].op = "approveTx" /\ calls[c].txHash # 0
                           /\ calls[c].first = "pending" /\ SpendWrite(c)
     /\ \A c \in Procs :
          /\ calls[c].pc = "ap_sent_saved" /\ calls'[c] # calls[c]
               => (limits.dailyLimit # NoLimit
                     <=> calls'[c].pc = "ap_spend_save")
          /\ SpendWrite(c) =>
               /\ getTotalForDate(dailyFile', calls[c].rec.date)
                    = getTotalForDate(dailyFile, calls[c].rec.date)
                        + calls[c].pending.valueWei
               /\ calls[c].pending.valueWei = 0 =>
                    \A d \in Days : getTotalForDate(dailyFile', d)
                                      = getTotalForDate(dailyFile, d)]_vars

\* C21. Pending records are never lost: once a request operation has
\* returned a txId (it returns when it has appended its '*_requested' audit
\* entry), the pending store holds a record for that id in every later
\* state, whatever the interleaving of request, approveTx and rejectTx calls.
RequestedActions == {requestedAction(op) : op \in RequestOps}
C21_RecordsNeverLost ==
  /\ \A i \in 1..Len(audit) :
       audit[i].action \in RequestedActions =>
         storeGet(pendingFile, audit[i].txId) # NoRec
  /\ \A c \in Procs :
       calls[c].op \in RequestOps /\ calls[c].pc = "returned" =>
         storeGet(pendingFile, calls[c].txId) # NoRec

\* C22. Registry invariant: whatever createWallet, importWallet,
\* recoverFromMnemonic, setDefaultWallet and ensureDefaultWallet calls have
\* run, failed or interleaved, a stored defaultWalletId is a key of the
\* stored wallets map.
C22_DefaultIsRegistered ==
  walletState.defaultWalletId # NoWallet =>
    /\ walletState.defaultWalletId \in WalletIds
    /\ walletState.wallets[walletState.defaultWalletId] # NoMeta
C22_Witness ==
  /\ walletState.defaultWalletId = W2
  /\ faults > 0
  /\ calls[1].op \in RegistryOps /\ calls[1].wrote
  /\ calls[2].op = "setDefaultWallet" /\ calls[2].wrote

\* C23. Wallet metadata is write-once: a WalletMeta stored in the registry
\* is neither removed nor changed by any later operation, also when the
\* same key is imported again and when two creations or imports interleave
\* between their load and their save.
C23_MetaWriteOnce ==
  [][\A w \in WalletIds :
       walletState.wallets[w] # NoMeta =>
         walletState'.wallets[w] = walletState.wallets[w]]_vars

\* C24. Queries are read-only: a getPendingTx, listPending or queryHistory
\* call leaves the pending store, the audit log, the daily-spend ledger and
\* the wallet registry as they were, and listPending returns exactly the
\* stored records whose status is 'pending'.
Queried(c) ==
  /\ calls'[c] # calls[c]
  /\ calls'[c].op \in {"getPendingTx", "listPending", "queryHistory"}
C24_QueriesReadOnly ==
  [][\A c \in Procs : Queried(c) =>
       /\ UNCHANGED <<pendingFile, audit, dailyFile, walletState>>
       /\ calls'[c].pc = "returned"
       /\ calls'[c].op = "listPending" =>
            \A t \in TxIds :
              calls'[c].items[t] =
                IF pendingFile[t].status = "pending" THEN pendingFile[t]
                ELSE NoRec]_vars
C24_Witness ==
  \E c \in Procs :
    /\ calls[c].op = "listPending" /\ calls[c].pc = "returned"
    /\ \E t \in TxIds : calls[c].items[t] # NoRec
    /\ \E t \in TxIds : pendingFile[t].status \in {"approved", "sent"}
                          /\ calls[c].items[t] = NoRec
    /\ Len(audit) > 1 /\ dailyFile # NoDaily

\* C25. Amount validation: a request whose amount is not an integer string
\* (a sign and decimal digits, white space around them allowed), or is
\* negative, or is 0 for requestSend and requestErc20Transfer, throws and
\* persists nothing; hence the valueWei of every stored record is a
\* non-negative integer.
IsIntegerString(s) ==
  /\ unsigned(trim(s)) # <<>>
  /\ \A i \in 1..Len(unsigned(trim(s))) : unsigned(trim(s))[i] \in DigitChars
BadAmount(c) ==
  \/ ~IsIntegerString(calls[c].amount)
  \/ BigInt(calls[c].amount) < 0
  \/ /\ calls[c].op \in {"requestSend", "requestErc20Transfer"}
     /\ BigInt(calls[c].amount) = 0
C25_AmountValidation ==
  /\ [](\A t \in TxIds : pendingFile[t] # NoRec => pendingFile[t].valueWei >= 0)
  /\ [][\A c \in Procs :
         /\ calls[c].op \in RequestOps /\ calls[c].pc = "rq_state"
         /\ calls'[c] # calls[c] /\ BadAmount(c)
         => /\ calls'[c].pc = "thrown"
            /\ UNCHANGED <<pendingFile, nextTx, audit>>]_vars

\* C26. ERC-20 calldata round trip: the data of the record a
\* requestErc20Approve / requestErc20Transfer builds is one selector and two
\* words; decoding it gives the selector of approve / transfer, the
\* validated spender or recipient and the amount asked for; the record has
\* to = the token address and valueWei 0, and it is the record stored.
SelectorOf(op) ==
  IF op = "requestErc20Approve" THEN APPROVE_SELECTOR ELSE TRANSFER_SELECTOR
Building(c) ==
  calls[c].op \in Erc20Ops /\ calls[c].pc \in {"rq_add", "rq_audit"}
Stub == config.platform # "darwin"
StubCreateThrows ==
  \A c \in Procs :
    /\ started' # started /\ calls'[c] # calls[c]
    /\ calls'[c].op \in {"createWallet", "importWallet", "recoverFromMnemonic"}
    => /\ calls'[c].pc = "thrown"
       /\ UNCHANGED <<walletState, audit>>
EnsureResumes(c) ==
  /\ calls[c].op = "ensureDefaultWallet" /\ calls[c].pc = "ed_state"
  /\ calls'[c] # calls[c]
StubEnsureThrows ==
  \A c \in Procs : EnsureResumes(c) =>
    calls'[c].pc = "thrown" /\ UNCHANGED <<walletState, audit>>
StubEnsureThrowsOrFinds ==
  \A c \in Procs : EnsureResumes(c) =>
    /\ UNCHANGED <<walletState, audit>>
    /\ IF walletKnown(walletState, walletState.defaultWalletId)
         THEN /\ calls'[c].pc = "returned"
              /\ calls'[c].meta = walletState.wallets[walletState.defaultWalletId]
         ELSE calls'[c].pc = "thrown"
StubNeverSends ==
  /\ broadcasts' = broadcasts
  /\ \A t \in TxIds : pendingFile'[t].status = "sent" => pendingFile[t].status = "sent"
  /\ \A c \in Procs : calls'[c].pc \notin {"wl_save", "wl_audit", "ap_broadcast"}
C27_DisabledCustody ==
  [][Stub => StubCreateThrows /\ StubEnsureThrowsOrFinds /\ StubNeverSends]_vars
C27_Witness ==
  /\ Stub
  /\ \E t \in TxIds : /\ pendingFile[t].status = "failed"
                       /\ pendingFile[t].error = "Cannot read wallet key"
  /\ \E c \in Procs : /\ calls[c].op = "ensureDefaultWallet"
                       /\ calls[c].pc = "returned"
\* C27 as stated: ensureDefaultWallet throws on such a platform
C27_StubAlwaysThrows ==
  [][Stub => StubCreateThrows /\ StubEnsureThrows /\ StubNeverSends]_vars

\* C28. Key confinement: no stored pending record (its error text
\* included), no audit entry and no registry entry holds a private key; a
\* wallet's stored and returned metadata is {walletId, address, createdAt}
\* (its type is a constant); a key is held only by a wallet operation or an
\* approveTx call in flight.
KeyTexts == Keys \cup {BadKey}
RecordClean(rec) ==
  rec # NoRec =>
    rec.status \notin KeyTexts /\ rec.error \notin KeyTexts /\ rec.walletId \notin KeyTexts
AuditClean(e) ==
  /\ e.action \notin KeyTexts
  /\ "error" \in DOMAIN e => e.error \notin KeyTexts
  /\ "walletId" \in DOMAIN e => e.walletId \notin KeyTexts
MetaClean(m) ==
  m # NoMeta =>
    /\ DOMAIN m = {"walletId", "address", "createdAt"}
    /\ m.walletId \notin KeyTexts /\ m.address \notin KeyTexts
RequestReturned(c) ==
  calls[c].op \in RequestOps /\ calls[c].pc = "returned"
C29_SpendingMode ==
  \A c \in Procs : RequestReturned(c) =>
    IF limits.mode = "auto"
      THEN \E b \in broadcasts : b.txId = calls[c].txId
    ELSE /\ pendingFile[calls[c].txId].status = "pending"
         /\ \A b \in broadcasts : b.txId # calls[c].txId

\* C30. Run to completion: once an approveTx call has written 'approved'
\* for a record, the record's stored status eventually is 'sent' or
\* 'failed'.
ApprovedBy(c, t) ==
  calls[c].op = "approveTx" /\ calls[c].txId = t /\ calls[c].pc = "ap_marked"
C30_RunToCompletion ==
  \A t \in TxIds :
    (\E c \in Procs : ApprovedBy(c, t))
      ~> (pendingFile[t].status \in {"sent", "failed"})

\* C31. Explicit overrides in the builder: a transaction signed for a
\* record with a nonce has that nonce and getTransactionCount was not
\* called; one signed for a record with a gasLimit has that gas limit and
\* estimateGas was not called; without them the nonce is the fetched count
\* and the gas is the estimate plus 10000.
Signed(c) == calls[c].op = "buildAndSignTx" /\ calls[c].pc = "returned"
C31_BuilderOverrides ==
  \A c \in Procs : Signed(c) =>
    /\ calls[c].nonce # NoNumber =>
         /\ calls[c].tx.nonce = calls[c].nonce
         /\ "getTransactionCount" \notin calls[c].rpcCalls
    /\ calls[c].gasLimit # NoNumber =>
         /\ calls[c].tx.gas = calls[c].gasLimit
         /\ "estimateGas" \notin calls[c].rpcCalls
    /\ calls[c].nonce = NoNumber =>
         /\ calls[c].tx.nonce \in Counts
         /\ "getTransactionCount" \in calls[c].rpcCalls
    /\ calls[c].gasLimit = NoNumber =>
         /\ calls[c].tx.gas \in {g + 10000 : g \in GasEstimates}
         /\ "estimateGas" \in calls[c].rpcCalls

\* C32. Fee shape and buffer: the signed transaction is EIP-1559 with
\* maxFeePerGas and maxPriorityFeePerGas and no gasPrice when
\* estimateFeesPerGas answered, legacy with gasPrice only when it failed
\* (getGasPrice is called in that case only); every fee is
\* floor(estimate * 120 / 100) of an estimate and not below it.
Buffered(fee, estimate) ==
  /\ fee >= estimate
  /\ 100 * fee <= 120 * estimate /\ 120 * estimate < 100 * (fee + 1)
C32_FeeShape ==
  \A c \in Procs : Signed(c) =>
    LET tx == calls[c].tx
        fields == DOMAIN tx \cap {"maxFeePerGas", "maxPriorityFeePerGas", "gasPrice"}
    IN /\ "estimateFeesPerGas" \in calls[c].rpcCalls
       /\ IF "getGasPrice" \in calls[c].rpcCalls
            THEN /\ tx.type = "legacy" /\ fields = {"gasPrice"}
                 /\ Len(calls[c].fees) = 1
                 /\ Buffered(tx.gasPrice, calls[c].fees[1])
          ELSE /\ tx.type = "eip1559"
               /\ fields = {"maxFeePerGas", "maxPriorityFeePerGas"}
               /\ Len(calls[c].fees) = 2
               /\ Buffered(tx.maxFeePerGas, calls[c].fees[1])
               /\ Buffered(tx.maxPriorityFeePerGas, calls[c].fees[2])
C32_Witness ==
  \E c \in Procs : /\ Signed(c) /\ calls[c].tx.type = "legacy"
                       /\ calls[c].fees = <<99>> /\ calls[c].tx.gasPrice = 118

\* C33. Recipient allowlist: with a non-empty allowedRecipients, requestSend,
\* requestErc20Transfer and requestContractCall build a record only if the
\* normalized recipient (of requestErc20Transfer: the token recipient) equals
\* an entry after trimming and ignoring case, and otherwise throw without a
\* record; the chain check precedes the recipient check, which precedes the
\* limitPerTx check, which precedes the dailyLimit check.
RecipientOps == {"requestSend", "requestErc20Transfer", "requestContractCall"}
EarlyErrors ==
  {"No default wallet", "Wallet not found", "SyntaxError", "Invalid address",
   "Value must be positive", "Chain not configured",
   "valueWei must be non-negative"}
RecipientOf(call) ==
  validateAddress(IF call.op = "requestErc20Transfer" THEN call.spender ELSE call.to)
Listed(call) ==
  limits.allowedRecipients # {} =>
    \E r \in limits.allowedRecipients :
      toLowerCase(trim(r)) = toLowerCase(RecipientOf(call))
PolicyChecked(c) ==
  /\ calls[c].op \in RecipientOps /\ calls[c].pc = "rq_state"
  /\ calls'[c] # calls[c]
  /\ calls'[c].error \notin EarlyErrors
RecipientCheckOrder(c) ==
  LET chainOk == limits.allowedChains = {}
                 \/ resolveChain(c) \in limits.allowedChains
      listed == Listed(calls[c])
      limitOk == calls[c].op = "requestErc20Transfer"
                 \/ calls[c].valueWei <= limits.limitPerTx
      after == calls'[c]
  IN /\ ~chainOk => after.pc = "thrown" /\ after.error = "Chain not allowed"
     /\ chainOk /\ ~listed =>
          /\ after.pc = "thrown"
          /\ after.error = "Recipient not in allowedRecipients"
          /\ UNCHANGED <<pendingFile, nextTx, audit>>
     /\ after.error = "Recipient not in allowedRecipients" => ~listed
     /\ chainOk /\ listed /\ ~limitOk =>
          after.pc = "thrown" /\ after.error = "Value exceeds limitPerTx"
     /\ after.pc \in {"rq_daily", "rq_add"} => chainOk /\ listed /\ limitOk
     /\ after.error # "Would exceed dailyLimit"
RecordsListed ==
  \A c \in Procs :
    (calls[c].op \in RecipientOps /\ calls[c].pc \in {"rq_add", "rq_audit"})
      => Listed(calls[c])
C33_RecipientAllowlist ==
  /\ []RecordsListed
  /\ [][\A c \in Procs : PolicyChecked(c) => RecipientCheckOrder(c)]_vars
C33_Witness ==
  /\ limits.allowedRecipients # {}
  /\ \E c \in Procs :
       /\ calls[c].op = "requestErc20Transfer" /\ calls[c].pc = "rq_audit"
       /\ toLowerCase(calls[c].to) = <<"b", "b">>
       /\ pendingFile[calls[c].txId] = calls[c].pending
C33_WitnessRefused ==
  /\ limits.allowedRecipients # {} /\ limits.allowedChains = {}
  /\ \E c \in Procs :
       /\ calls[c].op = "requestSend" /\ calls[c].pc = "thrown"
       /\ calls[c].error = "Recipient not in allowedRecipients"

\* C34. Successful request: a request operation that returns has added
\* exactly one record to the pending store, under a txId no record had,
\* with status 'pending', no txHash, no error, the explicit walletId or else
\* the default, and from equal to that wallet's address; it has appended
\* exactly one audit entry with that txId and the operation's '*_requested'
\* action; it has changed no other stored record.
Adds(c) ==
  calls[c].op \in RequestOps /\ calls[c].pc = "rq_add"
  /\ calls'[c].pc = "rq_audit"
Audits(c) ==
  calls[c].op \in RequestOps /\ calls[c].pc = "rq_audit"
  /\ calls'[c].pc = "returned"
RequestedWallet(c) ==
  IF calls[c].walletId # NoWallet THEN calls[c].walletId
  ELSE walletState.defaultWalletId
AddsOneRecord(c) ==
  LET t == calls[c].txId
      rec == pendingFile'[t]
  IN /\ pendingFile[t] = NoRec
     /\ rec # NoRec /\ rec.txId = t
     /\ rec.status = "pending" /\ rec.txHash = 0 /\ rec.error = ""
     /\ rec.walletId = RequestedWallet(c)
     /\ rec.from = walletState.wallets[RequestedWallet(c)].address
     /\ \A u \in TxIds \ {t} : pendingFile'[u] = pendingFile[u]
     /\ UNCHANGED <<audit, dailyFile, walletState>>
AppendsOneEntry(c) ==
  /\ Len(audit') = Len(audit) + 1
  /\ SubSeq(audit', 1, Len(audit)) = audit
  /\ audit'[Len(audit')].txId = calls[c].txId
  /\ audit'[Len(audit')].action = requestedAction(calls[c].op)
  /\ UNCHANGED <<pendingFile, dailyFile, walletState>>
C34_SuccessfulRequest ==
  [][\A c \in Procs : /\ Adds(c) => AddsOneRecord(c)
                      /\ Audits(c) => AppendsOneEntry(c)]_vars

\* C35. Daily-spend store: addSpend(date, v) stores {date, total + v} when
\* the stored date equals date and {date, v} otherwise; getTotalForDate(date)
\* returns the stored total when the stored date equals date and 0
\* otherwise; so after any sequence of addSpend calls with one date the
\* total for that date is the sum of their values, and the first addSpend
\* on a new date discards the previous day's total.
AddSpendSaves(c) ==
  LET old == dailyFile
      date == calls[c].rec.date
      v == calls[c].valueWei
  IN /\ dailyFile'.date = date
     /\ dailyFile'.totalWei =
          totalToString(IF old.date = date
                          THEN totalFromString(old.totalWei) + v ELSE v)
GetTotalReturns(c) ==
  calls'[c].spent =
    IF dailyFile.date = calls[c].rec.date
      THEN totalFromString(dailyFile.totalWei) ELSE 0
RECURSIVE SumOf(_)
SumOf(values) == IF values = <<>> THEN 0 ELSE Head(values) + SumOf(Tail(values))
RECURSIVE AfterAll(_, _, _)
AfterAll(file, date, values) ==
  IF values = <<>> THEN file
  ELSE AfterAll(dailyRecord(addSpend(loadDaily(file), date, Head(values))),
                date, Tail(values))
SpendRuns == UNION {[1..n -> {1, 9}] : n \in 1..3}
SumsFromHere ==
  \A date \in SpendDates, values \in SpendRuns :
    getTotalForDate(loadDaily(AfterAll(dailyFile, date, values)), date) =
      SumOf(values) + (IF dailyFile.date = date
                         THEN totalFromString(dailyFile.totalWei) ELSE 0)
C35_DailySpendStore ==
  /\ []SumsFromHere
  /\ [][\A c \in Procs :
          /\ (calls[c].pc = "ds_save" /\ calls'[c].pc = "returned")
               => AddSpendSaves(c)
          /\ (calls[c].pc = "ds_total" /\ calls'[c].pc = "returned")
               => GetTotalReturns(c)]_vars

\* C36. Audit query: queryHistory(filter) returns the audit entries that
\* match every given filter field (walletId, chainId, action), from the most
\* recently appended to the oldest, cut to the first `limit` entries (50
\* when no limit is given); the log only grows by appending, so an entry
\* once appended is returned unchanged by every later unfiltered,
\* sufficiently large query.
Matching(filter) ==
  {i \in 1..Len(audit) :
     /\ filter.walletId # NoWallet => audit[i].walletId = filter.walletId
     /\ filter.chainId # NoChain => audit[i].chainId = filter.chainId
     /\ filter.action # AnyAction => audit[i].action = filter.action}
QueryAnswers(filter, entries) ==
  LET found == Matching(filter)
      limit == IF filter.limit = NoNumber THEN 50 ELSE filter.limit
  IN /\ Len(entries) = IF Cardinality(found) < limit
                          THEN Cardinality(found) ELSE limit
     /\ \A k \in 1..Len(entries) :
          \E i \in found : /\ Cardinality({j \in found : j > i}) = k - 1
                           /\ entries[k] = audit[i]
OnlyAppends ==
  /\ Len(audit') >= Len(audit)
  /\ SubSeq(audit', 1, Len(audit)) = audit
C36_AuditQuery ==
  [][/\ OnlyAppends
     /\ \A filter \in HistoryFilters :
          (ActiveCalls = {} /\ queryHistory(filter)) =>
            QueryAnswers(filter, calls'[FreeSlot].entries)]_vars
C36_Witness ==
  /\ Len(audit) = DEFAULT_LIMIT + 1
  /\ audit[Len(audit)].walletId = W2 /\ audit[Len(audit)].chainId = OtherChain
  /\ \E c \in Procs :
       /\ calls[c].op = "queryHistory" /\ calls[c].pc = "returned"
       /\ Len(calls[c].entries) = DEFAULT_LIMIT
       /\ calls[c].entries[1] = audit[Len(audit)]
       /\ calls[c].entries[DEFAULT_LIMIT] = audit[2]

\* C37. Custody lookup keys are validated: every walletId passed to the
\* adapter's getPrivateKey or deleteWallet, and every walletId and key used
\* by createWallet and importWallet, has matched the strict pattern (0x and
\* the address digits, 0x and the key digits) before a shell command or a
\* file path is built from it; a walletId that does not match the strict
\* address pattern is rejected by both backends.
StrictAddress(s) ==
  /\ Len(s) = 2 + AddrChars /\ s[1] = "0" /\ s[2] = "x"
  /\ \A i \in 3..Len(s) : s[i] \in HexDigits
StrictKey(s) ==
  /\ Len(s) = 2 + KeyChars /\ s[1] = "0" /\ s[2] = "x"
  /\ \A i \in 3..Len(s) : s[i] \in HexDigits
C37_LookupKeysValidated ==
  \A c \in Procs :
    /\ calls[c].op \in {"getPrivateKey", "deleteWallet"} =>
         /\ calls[c].command # <<>> => StrictAddress(calls[c].arg)
         /\ ~StrictAddress(calls[c].arg) => calls[c].pc = "thrown"
    /\ (calls[c].op \in {"createWallet", "importWallet"}
          /\ calls[c].command # <<>>) =>
         StrictAddress(calls[c].to) /\ StrictKey(calls[c].amount)

\* C38. Default wallet selection: createWallet and importWallet make the new
\* wallet the default only when no default is set and otherwise leave
\* defaultWalletId unchanged; setDefaultWallet(id) sets the default to id
\* when id is registered, and for an unregistered id throws 'Wallet not
\* found' and leaves the registry and the audit log unchanged.
SavesWallet(c) == calls[c].pc = "wl_save" /\ calls'[c].pc = "wl_audit"
SelectsDefault(c) == calls[c].pc = "sd_state" /\ calls'[c].pc = "sd_audit"
RefusesDefault(c) ==
  /\ calls[c].pc = "sd_state" /\ calls'[c].pc = "thrown"
  /\ calls'[c].error = "Wallet not found"
Registered(id) == id \in WalletIds /\ walletState.wallets[id] # NoMeta
C38_DefaultSelection ==
  [][\A c \in Procs :
       /\ SavesWallet(c) =>
            walletState'.defaultWalletId =
              IF walletState.defaultWalletId = NoWallet
                THEN calls[c].meta.walletId
              ELSE walletState.defaultWalletId
       /\ SelectsDefault(c) =>
            /\ Registered(calls[c].walletId)
            /\ walletState'.defaultWalletId = calls[c].walletId
       /\ RefusesDefault(c) =>
            /\ ~Registered(calls[c].walletId)
            /\ UNCHANGED <<walletState, audit>>
       /\ (calls[c].pc = "sd_state" /\ calls'[c].pc \in {"sd_audit", "thrown"}
           /\ calls'[c].error # "write failed") =>
            (Registered(calls[c].walletId) <=> SelectsDefault(c))]_vars

\* C39. ensureDefaultWallet is idempotent: it creates a wallet only if no
\* registered default exists; called any number of times, sequentially or
\* concurrently, on an initially empty registry, exactly one wallet is
\* created and every call returns that same wallet.
EnsureReturned ==
  {c \in Procs : calls[c].op = "ensureDefaultWallet" /\ calls[c].pc = "returned"}
WalletsCreated ==
  {w \in WalletIds : walletState.wallets[w] # NoMeta}
    \cup {calls[c].meta.walletId :
            c \in {d \in Procs : calls[d].pc \in {"wl_save", "wl_audit"}}}
    \cup {calls[c].meta.walletId : c \in EnsureReturned}
C39_EnsureIdempotent ==
  /\ Cardinality(WalletsCreated) <= 1
  /\ \A c \in EnsureReturned :
       /\ walletState.wallets[calls[c].meta.walletId] = calls[c].meta
       /\ walletState.defaultWalletId = calls[c].meta.walletId

\* C40. Per-peer isolation: resolveStateDirForPeer maps any two distinct peer
\* ids to two distinct state directories under the same base, so two peers
\* never share a wallet registry, pending store, ledger or audit log.
C40_PeerIsolation ==
  \A c \in Procs : calls[c].op = "getServiceForContext" =>
    \A peerId \in PeerIds \ {calls[c].arg} :
      resolveStateDirForPeer(peerId) # calls[c].command

====
